---- MODULE Spec2Model ----
(***************************************************************************)
(* Model of the polymer property predictor of the lymeric platform:       *)
(* packages/ai-services/src/predictor.py (PolymerPredictor, get_predictor) *)
(* with the ChemistryService it calls and the predictions endpoint that    *)
(* calls it.                                                               *)
(*                                                                         *)
(* Python values are tagged records ([kind |-> ...]) so that values of     *)
(* different Python types can be compared.  Floats are exact rationals     *)
(* [nan, n, d] (d > 0, lowest terms) with one NaN; the only rounded        *)
(* operation is the square root, taken to 1/SqrtScale.                     *)
(***************************************************************************)
EXTENDS Integers, Sequences, FiniteSets, TLC

\* ------------------------------------------------------------------ bounds

\* Longest ensemble list an artifact of the model holds for a property.
MaxEnsemble == 3

\* ------------------------------------------------------------ float model

Abs(x) == IF x < 0 THEN -x ELSE x

RECURSIVE GCD(_, _)
GCD(a, b) == IF b = 0 THEN a ELSE GCD(b, a % b)

\* The float n/d.
Rat(n, d) ==
    LET s == IF d < 0 THEN -1 ELSE 1
        g == GCD(Abs(n), Abs(d))
    IN  [nan |-> FALSE, n |-> (s * n) \div g, d |-> (s * d) \div g]

FromInt(i) == [nan |-> FALSE, n |-> i, d |-> 1]
NaN == [nan |-> TRUE, n |-> 0, d |-> 1]
Zero == FromInt(0)
One == FromInt(1)

FAdd(x, y) == IF x.nan \/ y.nan THEN NaN ELSE Rat(x.n * y.d + y.n * x.d, x.d * y.d)
FSub(x, y) == IF x.nan \/ y.nan THEN NaN ELSE Rat(x.n * y.d - y.n * x.d, x.d * y.d)
FMul(x, y) == IF x.nan \/ y.nan THEN NaN ELSE Rat(x.n * y.n, x.d * y.d)
\* numpy float64 division: x/0 is not an exception; 0/0 is nan.  The model
\* only divides by zero in 0/0 (the mean and the variance of no values).
FDiv(x, y) == IF x.nan \/ y.nan \/ y.n = 0 THEN NaN ELSE Rat(x.n * y.d, x.d * y.n)
\* Comparisons with nan are False.
FLt(x, y) == ~x.nan /\ ~y.nan /\ x.n * y.d < y.n * x.d
FLe(x, y) == ~x.nan /\ ~y.nan /\ x.n * y.d <= y.n * x.d

\* Python's builtin max(a, b) and min(a, b): the first argument is kept
\* unless the second compares strictly greater (smaller).
PyMax(a, b) == IF FLt(a, b) THEN b ELSE a
PyMin(a, b) == IF FLt(b, a) THEN b ELSE a

\* Resolution of the square root: sqrt(x) is the largest k/SqrtScale whose
\* square is at most x.
SqrtScale == 1000

RECURSIVE ISqrtBetween(_, _, _)
ISqrtBetween(v, lo, hi) ==
    IF lo >= hi THEN lo
    ELSE LET mid == (lo + hi + 1) \div 2
         IN  IF mid * mid <= v THEN ISqrtBetween(v, mid, hi)
             ELSE ISqrtBetween(v, lo, mid - 1)

\* (46340 is the largest integer whose square TLC can compute.)
ISqrt(v) == ISqrtBetween(v, 0, IF v < 46340 THEN v ELSE 46340)

FSqrt(x) ==
    IF x.nan \/ x.n < 0 THEN NaN
    ELSE Rat(ISqrt((x.n * SqrtScale * SqrtScale) \div x.d), SqrtScale)

RECURSIVE SumSeq(_)
SumSeq(xs) == IF xs = <<>> THEN Zero ELSE FAdd(Head(xs), SumSeq(Tail(xs)))

\* numpy ndarray.mean(): the sum over the count; nan (with a warning, not an
\* exception) for an empty array.
NpMean(xs) == FDiv(SumSeq(xs), FromInt(Len(xs)))

\* numpy ndarray.std(): population standard deviation (ddof = 0).
NpStd(xs) ==
    LET Square(x) == FMul(x, x)
        Deviations(m) == [i \in 1..Len(xs) |-> Square(FSub(xs[i], m))]
    IN  FSqrt(NpMean(Deviations(NpMean(xs))))

\* ------------------------------------------------- SMILES text and RDKit

\* A str is the sequence of its characters.  str.count(ch) for a
\* one-character ch:
RECURSIVE StrCount(_, _)
StrCount(s, ch) ==
    IF s = <<>> THEN 0
    ELSE (IF Head(s) = ch THEN 1 ELSE 0) + StrCount(Tail(s), ch)

\* The part of RDKit's SMILES grammar the model reads: the atoms C N O S F,
\* the aromatic atoms c n o s, the bonds = and #, branches, and the ring
\* closure digits 1 and 2.  Any other character is a syntax error.
AliphaticAtoms == {"C", "N", "O", "S", "F"}
AromaticAtoms == {"c", "n", "o", "s"}
RingDigits == {"1", "2"}

Element(ch) ==
    CASE ch = "c" -> "C" [] ch = "n" -> "N" [] ch = "o" -> "O"
      [] ch = "s" -> "S" [] OTHER -> ch

\* The parse of no text.  `fresh` is set while a branch has been opened and
\* its first atom has not been read.
EmptyParse ==
    [ok |-> TRUE, atoms |-> <<>>, bonds |-> <<>>, prev |-> 0, stack |-> <<>>,
     bond |-> "", fresh |-> FALSE,
     rings |-> [r \in RingDigits |-> [atom |-> 0, bond |-> ""]]]

ParseError(st) == [st EXCEPT !.ok = FALSE]

BondType(st, a, b, explicit) ==
    IF explicit # "" THEN explicit
    ELSE IF st.atoms[a].aromatic /\ st.atoms[b].aromatic THEN "AROMATIC"
    ELSE "SINGLE"

\* Atoms a and b are already bonded.
Bonded(st, a, b) ==
    \E k \in 1..Len(st.bonds) : {st.bonds[k].a, st.bonds[k].b} = {a, b}

\* One character of the SMILES text read into the molecule being built.  A
\* branch starts with an atom, or a bond and an atom; a ring closure may not
\* repeat a bond.
ParseChar(st, ch) ==
    IF ch \in AliphaticAtoms \cup AromaticAtoms THEN
        LET atom == [symbol |-> Element(ch), aromatic |-> ch \in AromaticAtoms]
            atoms == Append(st.atoms, atom)
            me == Len(atoms)
            st1 == [st EXCEPT !.atoms = atoms, !.prev = me, !.bond = "",
                              !.fresh = FALSE]
        IN  IF st.prev = 0 THEN st1
            ELSE [st1 EXCEPT !.bonds = Append(st.bonds,
                     [a |-> st.prev, b |-> me,
                      type |-> BondType(st1, st.prev, me, st.bond)])]
    ELSE IF ch \in {"=", "#"} THEN
        IF st.prev = 0 \/ st.bond # "" THEN ParseError(st)
        ELSE [st EXCEPT !.bond = IF ch = "=" THEN "DOUBLE" ELSE "TRIPLE"]
    ELSE IF ch = "(" THEN
        IF st.prev = 0 \/ st.bond # "" \/ st.fresh THEN ParseError(st)
        ELSE [st EXCEPT !.stack = Append(st.stack, st.prev), !.fresh = TRUE]
    ELSE IF ch = ")" THEN
        IF st.stack = <<>> \/ st.bond # "" \/ st.fresh THEN ParseError(st)
        ELSE [st EXCEPT !.prev = st.stack[Len(st.stack)],
                        !.stack = SubSeq(st.stack, 1, Len(st.stack) - 1)]
    ELSE IF ch \in RingDigits THEN
        IF st.prev = 0 \/ st.fresh THEN ParseError(st)
        ELSE IF st.rings[ch].atom = 0 THEN
            [st EXCEPT !.rings[ch] = [atom |-> st.prev, bond |-> st.bond],
                       !.bond = ""]
        ELSE IF st.rings[ch].atom = st.prev THEN ParseError(st)
        ELSE IF Bonded(st, st.rings[ch].atom, st.prev) THEN ParseError(st)
        ELSE [st EXCEPT
                !.bonds = Append(st.bonds,
                    [a |-> st.rings[ch].atom, b |-> st.prev,
                     type |-> BondType(st, st.rings[ch].atom, st.prev,
                                 IF st.bond # "" THEN st.bond
                                 ELSE st.rings[ch].bond)]),
                !.rings[ch] = [atom |-> 0, bond |-> ""],
                !.bond = ""]
    ELSE ParseError(st)

RECURSIVE ParseFrom(_, _)
ParseFrom(s, st) ==
    IF ~st.ok \/ s = <<>> THEN st ELSE ParseFrom(Tail(s), ParseChar(st, Head(s)))

BondsOf(mol, i) == {k \in 1..Len(mol.bonds) : mol.bonds[k].a = i \/ mol.bonds[k].b = i}

BondOrder(type) ==
    CASE type = "DOUBLE" -> 2 [] type = "TRIPLE" -> 3 [] OTHER -> 1

\* Sum of the bond orders of the bonds k..Len(mol.bonds) that touch atom i.
RECURSIVE BondOrdersFrom(_, _, _)
BondOrdersFrom(mol, i, k) ==
    IF k > Len(mol.bonds) THEN 0
    ELSE (IF k \in BondsOf(mol, i) THEN BondOrder(mol.bonds[k].type) ELSE 0)
         + BondOrdersFrom(mol, i, k + 1)

\* Valence used by the explicit bonds of atom i (an aromatic atom counts one
\* more than its bonds, as in any Kekule form).
ExplicitValence(mol, i) ==
    BondOrdersFrom(mol, i, 1) + (IF mol.atoms[i].aromatic THEN 1 ELSE 0)

MaxValence(symbol) ==
    CASE symbol = "C" -> 4 [] symbol = "N" -> 3 [] symbol = "O" -> 2
      [] symbol = "S" -> 6 [] OTHER -> 1

DefaultValence(symbol) == IF symbol = "S" THEN 2 ELSE MaxValence(symbol)

\* atom.GetDegree(): the number of explicit neighbours.
GetDegree(mol, i) == Cardinality(BondsOf(mol, i))

\* atom.GetTotalNumHs(): the hydrogens filling the default valence.
GetTotalNumHs(mol, i) ==
    LET free == DefaultValence(mol.atoms[i].symbol) - ExplicitValence(mol, i)
    IN  IF free > 0 THEN free ELSE 0

\* Sanitization: no atom above its valence, every aromatic atom in a ring
\* (at least two aromatic bonds).
Sanitized(mol) ==
    \A i \in 1..Len(mol.atoms) :
        /\ ExplicitValence(mol, i) <= MaxValence(mol.atoms[i].symbol)
        /\ mol.atoms[i].aromatic =>
              Cardinality({k \in BondsOf(mol, i) : mol.bonds[k].type = "AROMATIC"}) >= 2

PyNone == [kind |-> "None"]

\* Exceptions: an evaluation either returns a value or raises.
Return(v) == [raised |-> FALSE, value |-> v]
Raise(e) == [raised |-> TRUE, value |-> e]

\* Chem.MolFromSmiles(smiles): the molecule, or None for text that does not
\* parse or does not sanitize.  It does not raise on a str.
MolFromSmiles(smiles) ==
    LET st == ParseFrom(smiles, EmptyParse)
        mol == [kind |-> "Mol", atoms |-> st.atoms, bonds |-> st.bonds]
    IN  IF /\ st.ok
           /\ st.stack = <<>>
           /\ st.bond = ""
           /\ \A r \in RingDigits : st.rings[r].atom = 0
           /\ Sanitized(mol)
        THEN mol
        ELSE PyNone

\* Atomic weights in 1/1000 u.
AtomicWeight(symbol) ==
    CASE symbol = "C" -> 12011 [] symbol = "N" -> 14007 [] symbol = "O" -> 15999
      [] symbol = "S" -> 32067 [] symbol = "F" -> 18998 [] symbol = "H" -> 1008
      [] OTHER -> 0

\* Weight of the atoms i..Len(mol.atoms) with their hydrogens.
RECURSIVE WeightFrom(_, _)
WeightFrom(mol, i) ==
    IF i > Len(mol.atoms) THEN 0
    ELSE AtomicWeight(mol.atoms[i].symbol)
         + AtomicWeight("H") * GetTotalNumHs(mol, i)
         + WeightFrom(mol, i + 1)

\* Descriptors.MolWt(mol)
MolWt(mol) == Rat(WeightFrom(mol, 1), 1000)

\* len(Chem.GetSSSR(mol)) of a connected molecule: bonds - atoms + 1.
GetSSSRLen(mol) ==
    IF mol.atoms = <<>> THEN 0 ELSE Len(mol.bonds) - Len(mol.atoms) + 1

\* The molecule as a graph: its atoms by number and its bonds as a set.
MolGraph(mol) ==
    [atoms |-> mol.atoms,
     bonds |-> {[ends |-> {mol.bonds[k].a, mol.bonds[k].b}, type |-> mol.bonds[k].type] :
                   k \in 1..Len(mol.bonds)}]

\* The graph with atom i renumbered p[i].
Renumbered(g, p) ==
    [atoms |-> [j \in 1..Len(g.atoms) |->
                   g.atoms[CHOOSE i \in 1..Len(g.atoms) : p[i] = j]],
     bonds |-> {[ends |-> {p[a] : a \in b.ends}, type |-> b.type] : b \in g.bonds}]

Neighbours(g, a) == {b \in 1..Len(g.atoms) : \E e \in g.bonds : e.ends = {a, b}}

\* Depth-first walk of the graph from atom `cur`, reached from `parent`,
\* taking neighbours by number: the atoms in the order first reached, each
\* with the atom it was reached from.
RECURSIVE Walk(_, _, _, _)
RECURSIVE WalkNeighbours(_, _, _, _)
Walk(g, cur, parent, seen) ==
    WalkNeighbours(g, cur, 1, Append(seen, [atom |-> cur, parent |-> parent]))
WalkNeighbours(g, cur, k, seen) ==
    IF k > Len(g.atoms) THEN seen
    ELSE IF k \in Neighbours(g, cur) /\ \A i \in 1..Len(seen) : seen[i].atom # k
    THEN WalkNeighbours(g, cur, k + 1, Walk(g, k, cur, seen))
    ELSE WalkNeighbours(g, cur, k + 1, seen)

\* Position of atom a in the walk, and the atom it was reached from.
WalkPos(walk, a) == CHOOSE i \in 1..Len(walk) : walk[i].atom = a
WalkParent(walk, a) == walk[WalkPos(walk, a)].parent

\* The bonds the walk did not follow: the ring closures, in the order of
\* their ends.
RingBonds(g, walk) ==
    {e \in g.bonds : \A a \in e.ends : WalkParent(walk, a) \notin e.ends}

RingBondNumber(g, walk, e) ==
    1 + Cardinality({f \in RingBonds(g, walk) :
            \E x \in f.ends : \A y \in e.ends :
                \/ WalkPos(walk, x) < WalkPos(walk, y)
                \/ /\ WalkPos(walk, x) = WalkPos(walk, y)
                   /\ \E x2 \in f.ends \ {x} : \E y2 \in e.ends \ {y} :
                         WalkPos(walk, x2) < WalkPos(walk, y2)})

BondSymbol(type) ==
    CASE type = "DOUBLE" -> <<"=">> [] type = "TRIPLE" -> <<"#">> [] OTHER -> <<>>

AtomSymbol(atom) ==
    IF atom.aromatic
    THEN CASE atom.symbol = "C" -> "c" [] atom.symbol = "N" -> "n"
           [] atom.symbol = "O" -> "o" [] atom.symbol = "S" -> "s"
    ELSE atom.symbol

BondBetween(g, a, b) == CHOOSE e \in g.bonds : e.ends = {a, b}

\* The ring closure digits written after atom a, lowest number first; the
\* bond symbol is written at the end of the bond the walk reached first.
RECURSIVE WriteRingDigits(_, _, _, _)
WriteRingDigits(g, walk, a, n) ==
    IF n > Cardinality(RingBonds(g, walk)) THEN <<>>
    ELSE LET e == CHOOSE f \in RingBonds(g, walk) : RingBondNumber(g, walk, f) = n
             first == \A b \in e.ends : WalkPos(walk, a) <= WalkPos(walk, b)
         IN  (IF a \in e.ends
              THEN (IF first THEN BondSymbol(e.type) ELSE <<>>)
                   \o <<IF n = 1 THEN "1" ELSE "2">>
              ELSE <<>>)
             \o WriteRingDigits(g, walk, a, n + 1)

\* The text of atom a and of what the walk reached from it: its symbol, its
\* ring closures, then its children, all but the last in parentheses.
RECURSIVE WriteAtom(_, _, _)
RECURSIVE WriteChildren(_, _, _, _)
WriteAtom(g, walk, a) ==
    <<AtomSymbol(g.atoms[a])>> \o WriteRingDigits(g, walk, a, 1)
        \o WriteChildren(g, walk, a, 1)
WriteChildren(g, walk, a, k) ==
    IF k > Len(g.atoms) THEN <<>>
    ELSE IF WalkParent(walk, k) # a THEN WriteChildren(g, walk, a, k + 1)
    ELSE LET Branch(text, rest) ==
                 IF rest = <<>> THEN text ELSE <<"(">> \o text \o <<")">> \o rest
         IN  Branch(BondSymbol(BondBetween(g, a, k).type) \o WriteAtom(g, walk, k),
                    WriteChildren(g, walk, a, k + 1))

\* The text of the graph written from atom 1.
Written(g) == WriteAtom(g, Walk(g, 1, 0, <<>>), 1)

\* Order of the characters in the comparison of texts.
CharRank(ch) ==
    CHOOSE i \in 1..15 :
        <<"C", "c", "=", "#", "N", "n", "O", "o", "F", "S", "s", "1", "2", "(", ")">>[i] = ch

\* s comes no later than u: shorter first, then by the first character that
\* differs.
TextLe(s, u) ==
    \/ Len(s) < Len(u)
    \/ /\ Len(s) = Len(u)
       /\ \/ s = u
          \/ \E i \in 1..Len(s) :
                /\ \A j \in 1..(i - 1) : s[j] = u[j]
                /\ CharRank(s[i]) < CharRank(u[i])

\* Chem.MolToSmiles(mol, canonical=True): one text per molecule, the same
\* whatever text the molecule was read from and however its atoms are
\* numbered: the first of the texts of all its numberings.  (RDKit picks its
\* numbering by ranking the atoms; its spelling may differ from this one,
\* its dependence on the molecule alone does not.)
MolToSmiles(mol) ==
    IF mol.atoms = <<>> THEN <<>>
    ELSE LET First(texts) == CHOOSE s \in texts : \A u \in texts : TextLe(s, u)
         IN  First({Written(Renumbered(MolGraph(mol), p)) :
                       p \in Permutations(1..Len(mol.atoms))})

\* ------------------------------------------------------ ChemistryService

\* A value that is not a str: float('nan'), what pandas holds for a missing
\* cell.  It is written as a one-element sequence that no str equals; it is
\* truthy, and it has no len().
NotAStr == <<"float('nan')">>

\* Chem.MolFromSmiles called from Python: TypeError (no converter to a C++
\* string) for what is not a str; on a str it returns and does not raise.
MolFromSmilesCall(x) ==
    IF x = NotAStr THEN Raise("TypeError") ELSE Return(MolFromSmiles(x))

PyStr(text) == [kind |-> "str", text |-> text]

\* ChemistryService.canonicalize_smiles: the canonical text of the molecule,
\* None when the text does not parse or anything raises.
canonicalize_smiles(smiles) ==
    LET Canonical(mol) ==
            IF mol.raised THEN PyNone
            ELSE IF mol.value = PyNone THEN PyNone
            ELSE PyStr(MolToSmiles(mol.value))
    IN  Canonical(MolFromSmilesCall(smiles))

\* validate_smiles without `if not smiles: return False`.
validate_smiles_without_empty_check(smiles) == MolFromSmiles(smiles) # PyNone

\* The try block of validate_smiles.
validate_smiles_try_block(smiles) ==
    LET IsMol(mol) == IF mol.raised THEN mol ELSE Return(mol.value # PyNone)
    IN  IsMol(MolFromSmilesCall(smiles))

\* validate_smiles without its try/except.
validate_smiles_call_without_except(smiles) ==
    IF smiles = <<>> THEN Return(FALSE) ELSE validate_smiles_try_block(smiles)

\* A call of ChemistryService.validate_smiles: what it returns, or what it
\* raises.  False for the empty string; else whether the text parses, and
\* False when the parser raises.
validate_smiles_call(smiles) ==
    LET except(r) == IF r.raised THEN Return(FALSE) ELSE r
    IN  IF smiles = <<>> THEN Return(FALSE)
        ELSE except(validate_smiles_try_block(smiles))

\* ChemistryService.validate_smiles on a str.
validate_smiles(smiles) == validate_smiles_call(smiles).value

\* ChemistryService.extract_simple_features: counts on the text as given.
extract_simple_features(smiles) ==
    [smiles_length     |-> FromInt(Len(smiles)),
     carbon_count      |-> FromInt(StrCount(smiles, "C")),
     nitrogen_count    |-> FromInt(StrCount(smiles, "N")),
     oxygen_count      |-> FromInt(StrCount(smiles, "O")),
     sulfur_count      |-> FromInt(StrCount(smiles, "S")),
     fluorine_count    |-> FromInt(StrCount(smiles, "F")),
     ring_count        |-> FromInt(StrCount(smiles, "1") + StrCount(smiles, "2")),
     double_bond_count |-> FromInt(StrCount(smiles, "=")),
     triple_bond_count |-> FromInt(StrCount(smiles, "#")),
     branch_count      |-> FromInt(StrCount(smiles, "("))]

\* mol.GetAtoms()
GetAtoms(mol) == 1..Len(mol.atoms)

IsON(mol, i) == mol.atoms[i].symbol \in {"O", "N"}
IsDonor(mol, i) == IsON(mol, i) /\ GetTotalNumHs(mol, i) > 0
IsAromatic(mol, i) == mol.atoms[i].aromatic
IsHalogen(mol, i) == mol.atoms[i].symbol \in {"F", "Cl", "Br", "I"}
IsHetero(mol, i) == mol.atoms[i].symbol \in {"N", "O", "S"}
IsCarbon(mol, i) == mol.atoms[i].symbol = "C"
IsSideChain(mol, i) == GetDegree(mol, i) > 2

\* Python's max(a, b) on ints.
IntMax(a, b) == IF b > a THEN b ELSE a

\* extract_chemistry_features dividing by backbone_carbons itself: the
\* ZeroDivisionError of a zero backbone is caught by `except Exception`.
extract_chemistry_features_without_max_guard(smiles) ==
    LET descriptors(mol) ==
        IF mol = PyNone THEN PyNone
        ELSE
          LET single_bonds ==
                  Cardinality({k \in 1..Len(mol.bonds) : mol.bonds[k].type = "SINGLE"})
              num_carbons == Cardinality({i \in GetAtoms(mol) : IsCarbon(mol, i)})
              num_side_chains == Cardinality({i \in GetAtoms(mol) : IsSideChain(mol, i)})
              backbone_carbons == num_carbons - num_side_chains
              branching_ratio == Rat(num_side_chains, backbone_carbons)
          IN  IF backbone_carbons = 0 THEN PyNone ELSE
              [kind |-> "dict",
               map |-> [num_side_chains  |-> FromInt(num_side_chains),
                        backbone_carbons |-> FromInt(backbone_carbons),
                        branching_ratio  |-> branching_ratio,
                        aromatic_count   |-> FromInt(Cardinality({i \in GetAtoms(mol) : IsAromatic(mol, i)})),
                        h_bond_donors    |-> FromInt(Cardinality({i \in GetAtoms(mol) : IsDonor(mol, i)})),
                        h_bond_acceptors |-> FromInt(Cardinality({i \in GetAtoms(mol) : IsON(mol, i)})),
                        num_rings        |-> FromInt(GetSSSRLen(mol)),
                        single_bonds     |-> FromInt(single_bonds),
                        halogen_count    |-> FromInt(Cardinality({i \in GetAtoms(mol) : IsHalogen(mol, i)})),
                        heteroatom_count |-> FromInt(Cardinality({i \in GetAtoms(mol) : IsHetero(mol, i)})),
                        mw_estimate      |-> MolWt(mol)]]
    IN  descriptors(MolFromSmiles(smiles))

\* ChemistryService.extract_chemistry_features: None when the text does not
\* parse, else the 11 graph descriptors.
extract_chemistry_features(smiles) ==
    LET descriptors(mol) ==
        IF mol = PyNone THEN PyNone
        ELSE
          LET single_bonds ==
                  Cardinality({k \in 1..Len(mol.bonds) : mol.bonds[k].type = "SINGLE"})
              num_carbons == Cardinality({i \in GetAtoms(mol) : IsCarbon(mol, i)})
              num_side_chains == Cardinality({i \in GetAtoms(mol) : IsSideChain(mol, i)})
              backbone_carbons == num_carbons - num_side_chains
              branching_ratio == Rat(num_side_chains, IntMax(backbone_carbons, 1))
          IN  [kind |-> "dict",
               map |-> [num_side_chains  |-> FromInt(num_side_chains),
                        backbone_carbons |-> FromInt(backbone_carbons),
                        branching_ratio  |-> branching_ratio,
                        aromatic_count   |-> FromInt(Cardinality({i \in GetAtoms(mol) : IsAromatic(mol, i)})),
                        h_bond_donors    |-> FromInt(Cardinality({i \in GetAtoms(mol) : IsDonor(mol, i)})),
                        h_bond_acceptors |-> FromInt(Cardinality({i \in GetAtoms(mol) : IsON(mol, i)})),
                        num_rings        |-> FromInt(GetSSSRLen(mol)),
                        single_bonds     |-> FromInt(single_bonds),
                        halogen_count    |-> FromInt(Cardinality({i \in GetAtoms(mol) : IsHalogen(mol, i)})),
                        heteroatom_count |-> FromInt(Cardinality({i \in GetAtoms(mol) : IsHetero(mol, i)})),
                        mw_estimate      |-> MolWt(mol)]]
    IN  descriptors(MolFromSmiles(smiles))

\* extract_all_features with the structural counts taken on the canonical
\* text instead of the text given.
extract_all_features_counts_on_canonical(smiles) ==
    LET merged(simple, chemistry) ==
            IF chemistry = PyNone THEN PyNone
            ELSE [kind |-> "dict", map |-> chemistry.map @@ simple]
        counted(canonical) ==
            IF canonical = PyNone THEN PyNone
            ELSE merged(extract_simple_features(canonical.text),
                        extract_chemistry_features(smiles))
    IN  counted(canonicalize_smiles(smiles))

\* ChemistryService.extract_all_features: {**simple, **chemistry}, or None.
extract_all_features(smiles) ==
    LET merged(simple, chemistry) ==
            IF chemistry = PyNone THEN PyNone
            ELSE [kind |-> "dict", map |-> chemistry.map @@ simple]
    IN  merged(extract_simple_features(smiles), extract_chemistry_features(smiles))

\* ------------------------------------------- fitted objects of an artifact

\* Width of the vectors the scalers and regressors were fit on.
NFeatures == 21

\* A fitted StandardScaler.  transform raises ValueError when the width of X
\* differs from the width it was fit on, else returns (X - mean) / scale.
StandardScaler(n) == [kind |-> "StandardScaler", n_features |-> n, mean |-> 1, scale |-> 2]

\* A fitted regressor: a one-split tree on one scaled feature.  predict
\* raises ValueError when the width of X differs from the width it was fit on.
Regressor(n, f, thr, le, gt) ==
    [kind |-> "Regressor", n_features |-> n, feature |-> f, threshold |-> thr,
     le |-> le, gt |-> gt]

\* An object with neither transform nor predict (AttributeError on use).
Junk == [kind |-> "Junk"]

PyDict(f) == [kind |-> "dict", map |-> f]
PyList(items) == [kind |-> "list", items |-> items]
EmptyDict == PyDict(<<>>)

\* scaler.transform(features)
transform(scaler, features) ==
    IF scaler.kind # "StandardScaler" THEN Raise("AttributeError")
    ELSE IF scaler.n_features # Len(features) THEN Raise("ValueError")
    ELSE Return([i \in 1..Len(features) |->
                    FDiv(FSub(features[i], FromInt(scaler.mean)), FromInt(scaler.scale))])

\* model.predict(features_scaled)[0]
model_predict(model, X) ==
    IF model.kind # "Regressor" THEN Raise("AttributeError")
    ELSE IF model.n_features # Len(X) THEN Raise("ValueError")
    ELSE Return(IF FLe(X[model.feature], FromInt(model.threshold))
                THEN FromInt(model.le) ELSE FromInt(model.gt))

\* ------------------------------------------------------- PolymerPredictor

property_names == <<"Tg", "FFV", "Tc", "Density", "Rg">>

\* feature_order with two of the graph descriptors in each other's place.
feature_order_swapped ==
    <<"smiles_length", "carbon_count", "nitrogen_count", "oxygen_count",
      "sulfur_count", "fluorine_count", "ring_count", "double_bond_count",
      "triple_bond_count", "branch_count",
      "num_side_chains", "backbone_carbons", "branching_ratio",
      "aromatic_count", "h_bond_acceptors", "h_bond_donors",
      "num_rings", "single_bonds", "halogen_count",
      "heteroatom_count", "mw_estimate">>

feature_order ==
    <<"smiles_length", "carbon_count", "nitrogen_count", "oxygen_count",
      "sulfur_count", "fluorine_count", "ring_count", "double_bond_count",
      "triple_bond_count", "branch_count",
      "num_side_chains", "backbone_carbons", "branching_ratio",
      "aromatic_count", "h_bond_donors", "h_bond_acceptors",
      "num_rings", "single_bonds", "halogen_count",
      "heteroatom_count", "mw_estimate">>

\* PolymerPredictor.extract_features: the features in feature_order, or None.
extract_features(smiles) ==
    LET vector(features_dict) ==
            IF features_dict = PyNone THEN PyNone
            ELSE IF \E i \in 1..Len(feature_order) :
                        feature_order[i] \notin DOMAIN features_dict.map
                 THEN PyNone
            ELSE [kind |-> "ndarray",
                  row |-> [i \in 1..Len(feature_order) |->
                              features_dict.map[feature_order[i]]]]
    IN  vector(extract_all_features(smiles))

\* data.get(key, default) on a dict.
DictGet(data, key, default) ==
    IF key \in DOMAIN data.map THEN data.map[key] ELSE default

\* Objects with a keys() method and an `in` test.
HasKeys(v) == v.kind \in {"dict", "Mapping"}

\* The predictor as __init__ leaves it before it looks at the file.
NewPredictor ==
    [models |-> PyNone, scalers |-> EmptyDict, n_ensemble |-> 5,
     feature_names |-> PyNone]

\* The try block of load_model on a file whose unpickling gives `file.data`
\* (or raises, for file.kind = "corrupt"): the predictor as the block leaves
\* it, and whether it raised.
load_model_try_block(self, file) ==
    IF file.kind = "corrupt" THEN [raised |-> TRUE, self |-> self]
    ELSE
        LET data == file.data
            assigned ==
                IF data.kind = "dict" THEN
                    [self EXCEPT
                        !.models = DictGet(data, "models", EmptyDict),
                        !.scalers = DictGet(data, "scalers", EmptyDict),
                        !.n_ensemble = DictGet(data, "n_ensemble", 5),
                        !.feature_names = DictGet(data, "feature_names", PyNone)]
                ELSE [self EXCEPT !.models = data, !.scalers = EmptyDict]
        IN  \* print(list(self.models.keys())) raises when models has no keys()
            [raised |-> ~HasKeys(assigned.models), self |-> assigned]

\* load_model without its try/except.
load_model_without_except(self, file) == load_model_try_block(self, file)

\* PolymerPredictor.load_model: the try block, and the except clause that
\* resets models and scalers.
load_model(self, file) ==
    LET except(r) ==
            IF r.raised
            THEN [raised |-> FALSE,
                  self |-> [r.self EXCEPT !.models = PyNone, !.scalers = EmptyDict]]
            ELSE r
    IN  except(load_model_try_block(self, file))

\* PolymerPredictor.__init__: load the file when it exists.
PolymerPredictor(file) ==
    IF file.kind = "missing" THEN [raised |-> FALSE, self |-> NewPredictor]
    ELSE load_model(NewPredictor, file)

PlaceholderEntry == [value |-> Zero, confidence |-> Zero]

\* PolymerPredictor._placeholder_predictions
_placeholder_predictions ==
    [k \in {"tg", "ffv", "tc", "density", "rg"} |-> PlaceholderEntry]

\* `x in container`
Contains(container, x) ==
    IF HasKeys(container) THEN Return(x \in DOMAIN container.map)
    ELSE IF container.kind = "list" THEN Return(\E i \in 1..Len(container.items) : container.items[i] = x)
    ELSE Raise("TypeError")

\* [model.predict(features_scaled)[0] for model in ensemble_models], with the
\* number of predict calls made: the comprehension stops at the first raise.
RECURSIVE EnsemblePredsFrom(_, _, _, _)
EnsemblePredsFrom(items, X, k, acc) ==
    IF k > Len(items) THEN [raised |-> FALSE, value |-> acc, calls |-> Len(items)]
    ELSE LET r == model_predict(items[k], X)
         IN  IF r.raised THEN [raised |-> TRUE, value |-> r.value, calls |-> k]
             ELSE EnsemblePredsFrom(items, X, k + 1, Append(acc, r.value))

ensemble_preds(ensemble_models, X) ==
    IF ensemble_models.kind # "list"
    THEN [raised |-> TRUE, value |-> "TypeError", calls |-> 0]
    ELSE EnsemblePredsFrom(ensemble_models.items, X, 1, <<>>)

\* The mean taken over the declared ensemble size (n_ensemble, 5 by default)
\* instead of over the outputs.
point_estimate_over_n_ensemble(preds) == FDiv(SumSeq(preds), FromInt(5))

\* pred = ensemble_preds.mean()
point_estimate(preds) == NpMean(preds)

\* The Tg correction applied to every property.
tg_transform_every_property(prop, pred) ==
    FAdd(FMul(Rat(9, 5), pred), FromInt(45))

\* if prop == 'Tg': pred = (9/5) * pred + 45
tg_transform(prop, pred) ==
    IF prop = "Tg" THEN FAdd(FMul(Rat(9, 5), pred), FromInt(45)) ELSE pred

\* confidence = 1.0 / (1.0 + ensemble_preds.std())
\* confidence = min(max(confidence, 0.0), 1.0)
confidence_of(preds) ==
    PyMin(PyMax(FDiv(One, FAdd(One, NpStd(preds))), Zero), One)

\* What the try block of one loop iteration did: whether it raised, the
\* entry it assigned (or the exception), the transform and predict calls it
\* made, and the local `pred` of line 165 (NaN when that line was not run).
Outcome(raised, value, scaler_calls, model_calls, pred) ==
    [raised |-> raised, value |-> value, scaler_calls |-> scaler_calls,
     model_calls |-> model_calls, pred |-> pred]

\* The statements of the try block of one loop iteration of predict.
predict_try_block(self, features, prop) ==
    LET Entry(preds, pred) ==
            Outcome(FALSE,
                    [value |-> tg_transform(prop, pred),
                     confidence |-> confidence_of(preds.value)],
                    1, preds.calls, pred)
        Ensemble(preds) ==
            IF preds.raised
            THEN Outcome(TRUE, preds.value, 1, preds.calls, NaN)
            ELSE Entry(preds, point_estimate(preds.value))
        Scaled(features_scaled) ==
            IF features_scaled.raised
            THEN Outcome(TRUE, features_scaled.value, 1, 0, NaN)
            ELSE Ensemble(ensemble_preds(self.models.map[prop], features_scaled.value))
        Guarded(inModels, inScalers) ==
            IF inModels.raised THEN Outcome(TRUE, inModels.value, 0, 0, NaN)
            ELSE IF ~inModels.value THEN Outcome(FALSE, PlaceholderEntry, 0, 0, NaN)
            ELSE IF inScalers.raised THEN Outcome(TRUE, inScalers.value, 0, 0, NaN)
            ELSE IF ~inScalers.value THEN Outcome(FALSE, PlaceholderEntry, 0, 0, NaN)
            ELSE Scaled(transform(self.scalers.map[prop], features.row))
    IN  Guarded(Contains(self.models, prop), Contains(self.scalers, prop))

\* predict's loop body without its try/except.
predict_property_without_except(self, features, prop) ==
    predict_try_block(self, features, prop)

\* One loop iteration of predict: the try block, and the except clause that
\* turns anything raised into the placeholder entry.
predict_property(self, features, prop) ==
    LET except(r) ==
            IF r.raised
            THEN [r EXCEPT !.raised = FALSE, !.value = PlaceholderEntry]
            ELSE r
    IN  except(predict_try_block(self, features, prop))

\* ----------------------------------------------------- artifacts, inputs

PropertySet == {property_names[i] : i \in 1..Len(property_names)}

\* PolymerPredictor.predict run from its first statement to its return with
\* nothing else running: what it returns.
predict(self, smiles) ==
    LET Loop(features) ==
            IF features = PyNone THEN Return(_placeholder_predictions)
            ELSE IF self.models = PyNone THEN Return(_placeholder_predictions)
            ELSE Return([p \in PropertySet |-> predict_property(self, features, p).value])
    IN  IF ~validate_smiles(smiles) THEN Return(_placeholder_predictions)
        ELSE Loop(extract_features(smiles))

GoodScaler == StandardScaler(NFeatures)
\* A scaler fit on vectors of another width.
NarrowScaler == StandardScaler(NFeatures - 1)

\* Three members of a fitted ensemble.  On the features of CCO, scaled by
\* GoodScaler, they predict 10, 12 and 11.
R1 == Regressor(NFeatures, 1, 2, 10, 14)
R2 == Regressor(NFeatures, 14, 0, 12, 20)
R3 == Regressor(NFeatures, 21, 30, 11, 5)
\* A regressor fit on vectors of another width.
NarrowRegressor == Regressor(NFeatures - 1, 1, 2, 10, 14)

Members == {R1, R2, R3, Junk}
FullEnsemble == PyList(<<R1, R2, R3>>)

Ensembles(n) == UNION {[1..k -> Members] : k \in 0..n}

\* No entry under the key.
Absent == [kind |-> "absent"]

\* What an artifact holds for one property: its scaler and its models.
Entries ==
    {[scaler |-> GoodScaler, models |-> m] :
        m \in {PyList(e) : e \in Ensembles(MaxEnsemble)}
              \cup {PyList(<<R1, NarrowRegressor>>), R1, Absent}}
    \cup {[scaler |-> sc, models |-> FullEnsemble] : sc \in {Absent, NarrowScaler, Junk}}

BaseEntries ==
    {[scaler |-> GoodScaler, models |-> FullEnsemble],
     [scaler |-> Absent, models |-> Absent]}

\* The dict of the entries present under `field`.
FieldDict(entries, field) ==
    PyDict([p \in {q \in PropertySet : entries[q][field] # Absent} |-> entries[p][field]])

\* The artifact the training script writes.
ArtifactV1(entries) ==
    PyDict([models |-> FieldDict(entries, "models"),
            scalers |-> FieldDict(entries, "scaler"),
            n_ensemble |-> Len(FullEnsemble.items),
            feature_names |-> PyList(feature_order)])

\* Artifacts in which one property's entry differs from the others'.
V1Data ==
    {ArtifactV1([q \in PropertySet |-> IF q = p THEN e ELSE base]) :
        p \in PropertySet, e \in Entries, base \in BaseEntries}

\* The legacy shape: a bare mapping from property name to one fitted model.
LegacyMap == [p \in PropertySet |-> R1]
FullMap(v) == PyDict([p \in PropertySet |-> v])

OtherData ==
    {PyDict(LegacyMap),
     [kind |-> "Mapping", map |-> LegacyMap],
     PyDict([models |-> PyNone, scalers |-> FullMap(GoodScaler)]),
     PyDict([models |-> FullMap(FullEnsemble), scalers |-> PyNone]),
     PyDict([models |-> FullMap(FullEnsemble), scalers |-> FullMap(GoodScaler)]),
     PyDict([models |-> FullMap(FullEnsemble)]),
     R1,
     PyList(<<R1>>)}

\* The file at model_path: missing, not unpicklable, or a pickled object.
Files ==
    {[kind |-> "missing"], [kind |-> "corrupt"]}
    \cup {[kind |-> "file", data |-> d] : d \in V1Data \cup OtherData}

SmilesEmpty == <<>>
SmilesXYZ123 == <<"X", "Y", "Z", "1", "2", "3">>
SmilesCCO == <<"C", "C", "O">>
SmilesIsopropanol == <<"C", "C", "(", "C", ")", "O">>
SmilesBenzene == <<"c", "1", "c", "c", "c", "c", "c", "1">>

SmilesInputs == {SmilesEmpty, SmilesXYZ123, SmilesCCO, SmilesIsopropanol, SmilesBenzene}

\* ------------------------------------------------------------------ state

VARIABLES
    artifact,    \* the file at model_path
    instances,   \* the PolymerPredictor objects constructed so far
    _predictor,  \* the module global: 0 for None, else an index of instances
    threads,     \* the request threads of the predictions endpoint: their
                 \* position in predict_properties and their locals, with
                 \* the calls made and each iteration's `pred` recorded
    call,        \* the last call of a ChemistryService function or of
                 \* extract_features made on its own: its argument and outcome
    materials,   \* the committed rows of the table `materials`
    next_id,     \* the ids given out so far, plus one (uuid4 never repeats)
    autoflush,   \* whether the sessions of get_db flush before a query
    requests,    \* the requests of the materials and upload endpoints in
                 \* progress: their position in the handler, their locals
                 \* and their session
    _file_storage,   \* upload.py's dict of uploaded frames; the key
                     \* f"upload_{n}" is written n
    imported_files,  \* the file ids for which import_materials has succeeded
    training_jobs,   \* training_service.py's dict of jobs; the uuid of the
                     \* n-th job started is written n
    tasks            \* the background tasks of the jobs: their position in
                     \* run_training_job and their config

predictor_vars == <<artifact, instances, _predictor, threads>>
materials_vars == <<materials, next_id, autoflush, requests>>
upload_vars == <<_file_storage, imported_files>>
training_vars == <<training_jobs, tasks>>

vars == <<artifact, instances, _predictor, threads, call,
          materials, next_id, autoflush, requests,
          _file_storage, imported_files, training_jobs, tasks>>

\* The state outside the predictor and its endpoint.
outside_predictor == <<call, materials_vars, upload_vars, training_vars>>

\* The state outside the table of materials and the requests on it.
outside_materials == <<predictor_vars, call, upload_vars, training_vars>>

NoCall == [fn |-> "none"]

NoResult == [kind |-> "none"]

\* The workers serving the materials and import endpoints.
MatWorkers == {"w1", "w2"}

\* A worker with no request: the locals of the handlers and the session
\* (`new`: objects added and not yet inserted; `flushed`: rows inserted in
\* the open transaction), the exception and the result of import_batch.
IdleRequest ==
    [pc |-> "idle", kind |-> "none", smiles |-> <<>>, canonical_smiles |-> PyNone,
     material_id |-> 0, rows |-> <<>>, valid_indices |-> <<>>, k |-> 0,
     new |-> <<>>, flushed |-> {}, status |-> 0,
     file_id |-> 0, skip_duplicates |-> TRUE,
     imported |-> <<>>, skipped |-> 0, duplicates |-> 0,
     error |-> "", result |-> NoResult]

\* No material stored and no request of the materials endpoints; no file
\* uploaded and no training job started.
MaterialsIdle ==
    /\ materials = {}
    /\ next_id = 1
    /\ autoflush = FALSE
    /\ requests = [w \in MatWorkers |-> IdleRequest]
    /\ _file_storage = <<>>
    /\ imported_files = {}
    /\ training_jobs = <<>>
    /\ tasks = <<>>

Threads == {"t1"}

IdleThread ==
    [pc |-> "idle", smiles |-> <<>>, predictor |-> 0, features |-> PyNone,
     i |-> 0, predictions |-> <<>>, result |-> NoResult, response |-> NoResult,
     scaler_calls |-> 0, model_calls |-> 0, pred |-> <<>>]

Init ==
    /\ artifact \in Files
    /\ instances = <<>>
    /\ _predictor = 0
    /\ threads = [t \in Threads |-> IdleThread]
    /\ call = NoCall
    /\ MaterialsIdle

\* predict_properties is entered with a request body (PREDICTOR_AVAILABLE).
Request(t, smiles) ==
    /\ threads[t].pc = "idle"
    /\ threads' = [threads EXCEPT ![t] = [IdleThread EXCEPT !.pc = "get_predictor",
                                                          !.smiles = smiles]]
    /\ UNCHANGED <<artifact, instances, _predictor, outside_predictor>>

\* get_predictor without `if _predictor is None`: every call constructs.
GetPredictorAlwaysConstructs(t) ==
    /\ threads[t].pc = "get_predictor"
    /\ threads' = [threads EXCEPT ![t].pc = "construct", ![t].predictor = _predictor]
    /\ UNCHANGED <<artifact, instances, _predictor, outside_predictor>>

\* get_predictor: `if _predictor is None`, and when it is not, `return _predictor`.
GetPredictorCheck(t) ==
    /\ threads[t].pc = "get_predictor"
    /\ threads' = [threads EXCEPT ![t].pc = IF _predictor = 0 THEN "construct" ELSE "predict",
                                  ![t].predictor = _predictor]
    /\ UNCHANGED <<artifact, instances, _predictor, outside_predictor>>

ReturnToHandler(th, r) == [th EXCEPT !.pc = "returned", !.result = r]

\* get_predictor: `_predictor = PolymerPredictor()`.  An exception of the
\* constructor leaves the global as it is and reaches the handler's except
\* clause.
Construct(t) ==
    /\ threads[t].pc = "construct"
    /\ \E new \in {PolymerPredictor(artifact)} :
          IF new.raised
          THEN /\ threads' = [threads EXCEPT ![t] =
                                 ReturnToHandler(threads[t], Raise("Exception"))]
               /\ UNCHANGED <<instances, _predictor>>
          ELSE /\ instances' = Append(instances, new.self)
               /\ _predictor' = Len(instances')
               /\ threads' = [threads EXCEPT ![t].pc = "return_predictor"]
    /\ UNCHANGED <<artifact, outside_predictor>>

\* get_predictor: `return _predictor` after the assignment, a second read of
\* the global.
GetPredictorReturn(t) ==
    /\ threads[t].pc = "return_predictor"
    /\ threads' = [threads EXCEPT ![t].pc = "predict", ![t].predictor = _predictor]
    /\ UNCHANGED <<artifact, instances, _predictor, outside_predictor>>

\* predict: `if not ChemistryService.validate_smiles(smiles)`.
PredictValidate(t) ==
    LET th == threads[t]
    IN  /\ th.pc = "predict"
        /\ threads' = [threads EXCEPT ![t] =
              IF ~validate_smiles(th.smiles)
              THEN ReturnToHandler(th, Return(_placeholder_predictions))
              ELSE [th EXCEPT !.pc = "extract"]]
        /\ UNCHANGED <<artifact, instances, _predictor, outside_predictor>>

\* PredictExtract without `if self.models is None`.
PredictExtractWithoutLoadedCheck(t) ==
    LET th == threads[t]
    IN  /\ th.pc = "extract"
        /\ \E features \in {extract_features(th.smiles)} :
              threads' = [threads EXCEPT ![t] =
                 IF features = PyNone
                 THEN ReturnToHandler(th, Return(_placeholder_predictions))
                 ELSE [th EXCEPT !.pc = "loop", !.features = features, !.i = 1,
                                 !.predictions = <<>>]]
        /\ UNCHANGED <<artifact, instances, _predictor, outside_predictor>>

\* PredictExtract with the request kept in one place for all threads: the
\* features are those of the SMILES of any request in flight.
PredictExtractSharedRequest(t) ==
    LET th == threads[t]
        self == instances[th.predictor]
    IN  /\ th.pc = "extract"
        /\ \E u \in DOMAIN threads :
              /\ threads[u].pc # "idle"
              /\ \E features \in {extract_features(threads[u].smiles)} :
                    threads' = [threads EXCEPT ![t] =
                       IF features = PyNone
                       THEN ReturnToHandler(th, Return(_placeholder_predictions))
                       ELSE IF self.models = PyNone
                       THEN ReturnToHandler([th EXCEPT !.features = features],
                                              Return(_placeholder_predictions))
                       ELSE [th EXCEPT !.pc = "loop", !.features = features, !.i = 1,
                                       !.predictions = <<>>]]
        /\ UNCHANGED <<artifact, instances, _predictor, outside_predictor>>

\* predict: extract_features, `if features is None`, `if self.models is None`,
\* `predictions = {}`.
PredictExtract(t) ==
    LET th == threads[t]
        self == instances[th.predictor]
    IN  /\ th.pc = "extract"
        /\ \E features \in {extract_features(th.smiles)} :
              threads' = [threads EXCEPT ![t] =
                 IF features = PyNone
                 THEN ReturnToHandler(th, Return(_placeholder_predictions))
                 ELSE IF self.models = PyNone
                 THEN ReturnToHandler([th EXCEPT !.features = features],
                                        Return(_placeholder_predictions))
                 ELSE [th EXCEPT !.pc = "loop", !.features = features, !.i = 1,
                                 !.predictions = <<>>]]
        /\ UNCHANGED <<artifact, instances, _predictor, outside_predictor>>

\* PredictLoop with `break` in place of `continue` for a property that has
\* no models or no scaler entry.
PredictLoopBreakOnMissing(t) ==
    LET th == threads[t]
        self == instances[th.predictor]
        prop == property_names[th.i]
        Missing(container) ==
            \E has \in {Contains(container, prop)} : ~has.raised /\ ~has.value
    IN  /\ th.pc = "loop"
        /\ th.i <= Len(property_names)
        /\ \E r \in {predict_property(self, th.features, prop)} :
              threads' = [threads EXCEPT ![t] =
                 [th EXCEPT !.i = IF Missing(self.models) \/ Missing(self.scalers)
                                  THEN Len(property_names) + 1 ELSE @ + 1,
                            !.scaler_calls = @ + r.scaler_calls,
                            !.model_calls = @ + r.model_calls,
                            !.pred = (prop :> r.pred) @@ @,
                            !.predictions = (prop :> r.value) @@ @]]
        /\ UNCHANGED <<artifact, instances, _predictor, outside_predictor>>

\* PredictLoop with the try/except around the loop instead of inside it: the
\* first exception ends the loop.
PredictLoopTryAroundLoop(t) ==
    LET th == threads[t]
        self == instances[th.predictor]
        prop == property_names[th.i]
    IN  /\ th.pc = "loop"
        /\ th.i <= Len(property_names)
        /\ \E r \in {predict_try_block(self, th.features, prop)} :
              threads' = [threads EXCEPT ![t] =
                 [th EXCEPT !.i = IF r.raised THEN Len(property_names) + 1 ELSE @ + 1,
                            !.scaler_calls = @ + r.scaler_calls,
                            !.model_calls = @ + r.model_calls,
                            !.pred = (prop :> r.pred) @@ @,
                            !.predictions =
                               (prop :> IF r.raised THEN PlaceholderEntry ELSE r.value) @@ @]]
        /\ UNCHANGED <<artifact, instances, _predictor, outside_predictor>>

\* PredictLoop with the features kept on the predictor (self.features)
\* instead of in a local: an iteration reads what any thread stored last.
PredictLoopSharedFeatures(t) ==
    LET th == threads[t]
        self == instances[th.predictor]
        prop == property_names[th.i]
    IN  /\ th.pc = "loop"
        /\ th.i <= Len(property_names)
        /\ \E u \in DOMAIN threads :
              /\ threads[u].features # PyNone
              /\ \E r \in {predict_property(self, threads[u].features, prop)} :
                    threads' = [threads EXCEPT ![t] =
                       [th EXCEPT !.i = @ + 1,
                                  !.scaler_calls = @ + r.scaler_calls,
                                  !.model_calls = @ + r.model_calls,
                                  !.pred = (prop :> r.pred) @@ @,
                                  !.predictions = (prop :> r.value) @@ @]]
        /\ UNCHANGED <<artifact, instances, _predictor, outside_predictor>>

\* predict: one iteration of `for prop in self.property_names`.
PredictLoop(t) ==
    LET th == threads[t]
        self == instances[th.predictor]
        prop == property_names[th.i]
    IN  /\ th.pc = "loop"
        /\ th.i <= Len(property_names)
        /\ \E r \in {predict_property(self, th.features, prop)} :
              threads' = [threads EXCEPT ![t] =
                 IF r.raised
                 THEN ReturnToHandler(th, Raise(r.value))
                 ELSE [th EXCEPT !.i = @ + 1,
                                 !.scaler_calls = @ + r.scaler_calls,
                                 !.model_calls = @ + r.model_calls,
                                 !.pred = (prop :> r.pred) @@ @,
                                 !.predictions = (prop :> r.value) @@ @]]
        /\ UNCHANGED <<artifact, instances, _predictor, outside_predictor>>

\* predict: `return predictions`.
PredictReturn(t) ==
    LET th == threads[t]
    IN  /\ th.pc = "loop"
        /\ th.i > Len(property_names)
        /\ threads' = [threads EXCEPT ![t] = ReturnToHandler(th, Return(th.predictions))]
        /\ UNCHANGED <<artifact, instances, _predictor, outside_predictor>>

\* predict_properties: the response body, or HTTP 500 for anything raised.
Respond(t) ==
    LET th == threads[t]
    IN  /\ th.pc = "returned"
        /\ threads' = [threads EXCEPT ![t].pc = "idle",
              ![t].response =
                  IF th.result.raised THEN [status |-> 500]
                  ELSE [status |-> 200, smiles |-> th.smiles,
                        predictions |-> th.result.value]]
        /\ UNCHANGED <<artifact, instances, _predictor, outside_predictor>>

Next ==
    \E t \in Threads :
        \/ \E smiles \in SmilesInputs : Request(t, smiles)
        \/ GetPredictorCheck(t)
        \/ Construct(t)
        \/ GetPredictorReturn(t)
        \/ PredictValidate(t)
        \/ PredictExtract(t)
        \/ PredictLoop(t)
        \/ PredictReturn(t)
        \/ Respond(t)

Spec == Init /\ [][Next]_vars

\* ------------------------------------------------- concurrent requests

\* predict_properties is a plain `def`: the server runs each request on a
\* thread of its pool, so requests interleave at every step.
ConcThreads == {"t1", "t2"}

\* Artifacts of the concurrent runs: none, the one the training script
\* writes, and ones whose Tg has a broken scaler, a short ensemble or a
\* member that cannot predict.
ConcFiles ==
    {[kind |-> "missing"]}
    \cup {[kind |-> "file",
           data |-> ArtifactV1([q \in PropertySet |->
                       IF q = "Tg" THEN e
                       ELSE [scaler |-> GoodScaler, models |-> FullEnsemble]])] :
          e \in {[scaler |-> GoodScaler, models |-> FullEnsemble],
                 [scaler |-> Junk, models |-> FullEnsemble],
                 [scaler |-> GoodScaler, models |-> PyList(<<R1>>)],
                 [scaler |-> GoodScaler, models |-> PyList(<<R1, Junk>>)]}}

ConcInit ==
    /\ artifact \in ConcFiles
    /\ instances = <<>>
    /\ _predictor = 0
    /\ threads = [t \in ConcThreads |-> IdleThread]
    /\ call = NoCall
    /\ MaterialsIdle

ConcNext ==
    \E t \in ConcThreads :
        \/ \E smiles \in SmilesInputs : Request(t, smiles)
        \/ GetPredictorCheck(t)
        \/ Construct(t)
        \/ GetPredictorReturn(t)
        \/ PredictValidate(t)
        \/ PredictExtract(t)
        \/ PredictLoop(t)
        \/ PredictReturn(t)
        \/ Respond(t)

ConcSpec == ConcInit /\ [][ConcNext]_vars

\* --------------------------------------------- UploadService.validate_batch

\* The column of a DataFrame is the sequence of its cells, a cell being a str
\* or the missing value nan; the index of the frame is 0, 1, 2, ...
\* df.iloc[idx] is the row at position idx.
iloc(rows, idx) == rows[idx + 1]

\* pd.isna of a cell.
isna(cell) == cell = NotAStr

\* validate_batch whose missing-SMILES branch does not `continue`: the row
\* goes on to validate_smiles, which refuses the text 'nan'.
RECURSIVE validate_batch_missing_falls_through_from(_, _, _, _)
validate_batch_missing_falls_through_from(rows, idx, valid_indices, errors) ==
    IF idx >= Len(rows) THEN [valid_indices |-> valid_indices, errors |-> errors]
    ELSE IF isna(iloc(rows, idx))
    THEN validate_batch_missing_falls_through_from(rows, idx + 1, valid_indices,
             errors \o <<[row |-> idx + 2, smiles |-> <<>>, error |-> "Missing SMILES"],
                         [row |-> idx + 2, smiles |-> <<"n", "a", "n">>,
                          error |-> "Invalid SMILES structure"]>>)
    ELSE IF ~validate_smiles(iloc(rows, idx))
    THEN validate_batch_missing_falls_through_from(rows, idx + 1, valid_indices,
             Append(errors, [row |-> idx + 2, smiles |-> iloc(rows, idx),
                             error |-> "Invalid SMILES structure"]))
    ELSE validate_batch_missing_falls_through_from(rows, idx + 1,
             Append(valid_indices, idx), errors)

validate_batch_missing_falls_through(rows) ==
    validate_batch_missing_falls_through_from(rows, 0, <<>>, <<>>)

\* The loop of validate_batch from row idx on: a missing cell and a SMILES
\* that validate_smiles refuses go to errors with row idx + 2 (1-indexed, after
\* the header row), every other idx goes to valid_indices.
RECURSIVE validate_batch_from(_, _, _, _)
validate_batch_from(rows, idx, valid_indices, errors) ==
    IF idx >= Len(rows) THEN [valid_indices |-> valid_indices, errors |-> errors]
    ELSE IF isna(iloc(rows, idx))
    THEN validate_batch_from(rows, idx + 1, valid_indices,
             Append(errors, [row |-> idx + 2, smiles |-> <<>>,
                             error |-> "Missing SMILES"]))
    ELSE IF ~validate_smiles(iloc(rows, idx))
    THEN validate_batch_from(rows, idx + 1, valid_indices,
             Append(errors, [row |-> idx + 2, smiles |-> iloc(rows, idx),
                             error |-> "Invalid SMILES structure"]))
    ELSE validate_batch_from(rows, idx + 1, Append(valid_indices, idx), errors)

\* UploadService.validate_batch: (valid_indices, errors).
validate_batch(rows) == validate_batch_from(rows, 0, <<>>, <<>>)

\* ------------------------------------- calls of the feature functions

\* The longest text of the enumerated arguments.
MaxSmilesLen == 3

ChemAlphabet == {"C", "N", "O", "(", ")", "=", "1", "X"}

\* Larger molecules: a guanidine-like and a nitrogen centre (backbone_carbons
\* 0 and -1), rings, branches written in more than one way.
ChemNamed ==
    SmilesInputs
    \cup {<<"N", "C", "(", "N", ")", "N">>,
          <<"N", "(", "O", ")", "(", "O", ")", "O">>,
          <<"C", "(", "C", ")", "O">>,
          <<"O", "C", "(", "C", ")", "C">>,
          <<"C", "1", "C", "C", "1">>,
          <<"C", "(", "C", ")", "(", "C", ")", "(", "C", ")", "C">>}

\* The str arguments, and the arguments of any type.
ChemTexts == UNION {[1..n -> ChemAlphabet] : n \in 0..MaxSmilesLen} \cup ChemNamed
ChemArgs == ChemTexts \cup {NotAStr}

\* The call made and its outcome.
Called(fn, arg, out) ==
    /\ call' = [fn |-> fn, arg |-> arg, out |-> out]
    /\ UNCHANGED <<predictor_vars, materials_vars, upload_vars, training_vars>>

\* The caller has taken the outcome.
CallReturns ==
    /\ call # NoCall
    /\ call' = NoCall
    /\ UNCHANGED <<predictor_vars, materials_vars, upload_vars, training_vars>>

CallValidateSmiles ==
    \E smiles \in ChemArgs :
        /\ call = NoCall
        /\ Called("validate_smiles", smiles, validate_smiles_call(smiles))

CallCanonicalizeSmiles ==
    \E smiles \in ChemArgs :
        /\ call = NoCall
        /\ Called("canonicalize_smiles", smiles, canonicalize_smiles(smiles))

CallExtractSimpleFeatures ==
    \E smiles \in ChemTexts :
        /\ call = NoCall
        /\ Called("extract_simple_features", smiles, extract_simple_features(smiles))

CallExtractChemistryFeatures ==
    \E smiles \in ChemTexts :
        /\ call = NoCall
        /\ Called("extract_chemistry_features", smiles, extract_chemistry_features(smiles))

CallExtractAllFeatures ==
    \E smiles \in ChemTexts :
        /\ call = NoCall
        /\ Called("extract_all_features", smiles, extract_all_features(smiles))

CallExtractFeatures ==
    \E smiles \in ChemTexts :
        /\ call = NoCall
        /\ Called("extract_features", smiles, extract_features(smiles))

\* The longest column of the enumerated files.
MaxRows == 3

\* Columns of a valid SMILES, an invalid one and a missing cell.
BatchCells == {SmilesCCO, SmilesXYZ123, NotAStr}
BatchColumns == UNION {[1..n -> BatchCells] : n \in 0..MaxRows}

CallValidateBatch ==
    \E rows \in BatchColumns :
        /\ call = NoCall
        /\ Called("validate_batch", rows, validate_batch(rows))

ChemInit ==
    /\ artifact = [kind |-> "missing"]
    /\ instances = <<>>
    /\ _predictor = 0
    /\ threads = [t \in Threads |-> IdleThread]
    /\ call = NoCall
    /\ MaterialsIdle

ChemNext ==
    \/ CallValidateSmiles
    \/ CallCanonicalizeSmiles
    \/ CallExtractSimpleFeatures
    \/ CallExtractChemistryFeatures
    \/ CallExtractAllFeatures
    \/ CallExtractFeatures
    \/ CallValidateBatch
    \/ CallReturns

ChemSpec == ChemInit /\ [][ChemNext]_vars

\* ------------------------------------- materials and import endpoints

\* No request that may insert is taken once this many ids were given out.
MaxCreated == 3

\* Request bodies: an invalid text, ethanol written two ways, methylamine.
SmilesXX == <<"X", "X">>
SmilesOCC == <<"O", "C", "C">>
SmilesCN == <<"C", "N">>
MatSmiles == {SmilesXX, SmilesCCO, SmilesOCC, SmilesCN}

\* The SMILES columns of the uploaded files: one molecule twice, a mix with
\* an invalid row, and no valid row.
MatBatches ==
    <<(<<SmilesCCO, SmilesOCC>>), (<<SmilesCN, SmilesXX, SmilesCCO>>), (<<SmilesXX>>)>>

\* The DataFrame parse_file makes of a file whose one column, `smiles`,
\* holds `rows`.
Frame(rows) == [smiles |-> rows]

SmilesColumns == {"smiles", "name"}

\* _file_storage after these frames were uploaded, one after the other.
Stored(frames) == [file_id \in 0..(Len(frames) - 1) |-> frames[file_id + 1]]

\* del _file_storage[file_id]
Del(storage, file_id) == [k \in (DOMAIN storage) \ {file_id} |-> storage[k]]

\* The values of canonical_smiles among rows.
Keys(rows) == {m.canonical_smiles : m \in rows}

\* Without `unique=True` on canonical_smiles no insert is refused.
NoUniqueIndex(keys, key) == FALSE

\* Material.canonical_smiles is declared unique=True and the table is made by
\* Base.metadata.create_all: the database refuses a row whose
\* canonical_smiles is that of a row it holds.
UniqueViolation(keys, key) == key \in keys

\* The flush of a session: its new objects are inserted one after the other,
\* each with a fresh id; IntegrityError at the first one the index refuses.
RECURSIVE InsertAll(_, _, _)
InsertAll(keys, new, id) ==
    IF new = <<>> THEN Return({})
    ELSE IF UniqueViolation(keys, Head(new).canonical_smiles)
    THEN Raise("IntegrityError")
    ELSE LET Rest(r) ==
                 IF r.raised THEN r
                 ELSE Return({[id |-> id, smiles |-> Head(new).smiles,
                               canonical_smiles |-> Head(new).canonical_smiles]}
                             \cup r.value)
         IN  Rest(InsertAll(keys \cup {Head(new).canonical_smiles}, Tail(new), id + 1))

\* An insert waits while another transaction holds an uncommitted row with
\* the same canonical_smiles.
Blocked(w, key) ==
    \E v \in MatWorkers \ {w} : key \in Keys(requests[v].flushed)

\* The handler ends with the status; get_db closes the session, which rolls
\* back what was not committed.
Responded(r, status) ==
    [r EXCEPT !.pc = "responded", !.status = status, !.new = <<>>, !.flushed = {}]

\* POST /api/materials/ arrives.
CreateRequest(w, smiles) ==
    /\ requests[w].pc = "idle"
    /\ next_id <= MaxCreated
    /\ requests' = [requests EXCEPT ![w] =
                       [IdleRequest EXCEPT !.pc = "create_check", !.kind = "create",
                                           !.smiles = smiles]]
    /\ UNCHANGED <<outside_materials, materials, next_id, autoflush>>

\* create_material without the query for an existing material.
CreateCheckWithoutExistingQuery(w) ==
    /\ requests[w].pc = "create_check"
    /\ \E canonical_smiles \in {canonicalize_smiles(requests[w].smiles)} :
          requests' = [requests EXCEPT ![w] =
              IF ~validate_smiles(requests[w].smiles) THEN Responded(@, 400)
              ELSE IF canonical_smiles = PyNone THEN Responded(@, 400)
              ELSE IF canonical_smiles.text = <<>> THEN Responded(@, 400)
              ELSE [@ EXCEPT !.pc = "create_commit",
                             !.canonical_smiles = canonical_smiles]]
    /\ UNCHANGED <<outside_materials, materials, next_id, autoflush>>

\* create_material up to the query: 400 for an invalid SMILES or one with no
\* canonical form, 409 when a stored material has the canonical form.
CreateCheck(w) ==
    /\ requests[w].pc = "create_check"
    /\ \E canonical_smiles \in {canonicalize_smiles(requests[w].smiles)} :
          requests' = [requests EXCEPT ![w] =
              IF ~validate_smiles(requests[w].smiles) THEN Responded(@, 400)
              ELSE IF canonical_smiles = PyNone THEN Responded(@, 400)
              ELSE IF canonical_smiles.text = <<>> THEN Responded(@, 400)
              ELSE IF \E existing \in materials :
                         existing.canonical_smiles = canonical_smiles.text
                   THEN Responded(@, 409)
              ELSE [@ EXCEPT !.pc = "create_commit",
                             !.canonical_smiles = canonical_smiles]]
    /\ UNCHANGED <<outside_materials, materials, next_id, autoflush>>

\* create_material: db.add, db.commit.  The IntegrityError of the insert is
\* not caught: the response is 500 and nothing is stored.
CreateCommit(w) ==
    /\ requests[w].pc = "create_commit"
    /\ ~Blocked(w, requests[w].canonical_smiles.text)
    /\ \E inserted \in {InsertAll(Keys(materials),
                                  <<[smiles |-> requests[w].smiles,
                                     canonical_smiles |-> requests[w].canonical_smiles.text]>>,
                                  next_id)} :
          IF inserted.raised
          THEN /\ requests' = [requests EXCEPT ![w] = Responded(@, 500)]
               /\ UNCHANGED <<materials, next_id>>
          ELSE /\ materials' = materials \cup inserted.value
               /\ next_id' = next_id + 1
               /\ requests' = [requests EXCEPT ![w] = Responded(@, 201)]
    /\ UNCHANGED <<outside_materials, autoflush>>

\* DELETE /api/materials/{material_id} arrives.
DeleteRequest(w, material_id) ==
    /\ requests[w].pc = "idle"
    /\ requests' = [requests EXCEPT ![w] =
                       [IdleRequest EXCEPT !.pc = "delete_check", !.kind = "delete",
                                           !.material_id = material_id]]
    /\ UNCHANGED <<outside_materials, materials, next_id, autoflush>>

\* delete_material up to the query: 404 when no material has the id.
DeleteCheck(w) ==
    /\ requests[w].pc = "delete_check"
    /\ requests' = [requests EXCEPT ![w] =
          IF \E material \in materials : material.id = requests[w].material_id
          THEN [@ EXCEPT !.pc = "delete_commit"]
          ELSE Responded(@, 404)]
    /\ UNCHANGED <<outside_materials, materials, next_id, autoflush>>

\* delete_material: db.delete, db.commit.  A row that is gone by now is a
\* warning of the ORM, not an exception.
DeleteCommit(w) ==
    /\ requests[w].pc = "delete_commit"
    /\ materials' = {material \in materials : material.id # requests[w].material_id}
    /\ requests' = [requests EXCEPT ![w] = Responded(@, 204)]
    /\ UNCHANGED <<outside_materials, next_id, autoflush>>

\* POST /api/upload/import arrives: 404 for a file_id not stored, 400 for a
\* column the frame has not, validate_batch, 400 when no row is valid.  The
\* handler is a coroutine that never awaits, so no other import runs before
\* it has ended.
ImportRequest(w, file_id, smiles_column, skip_duplicates) ==
    /\ requests[w].pc = "idle"
    /\ \A v \in MatWorkers : requests[v].kind # "import"
    /\ next_id <= MaxCreated
    /\ \E data \in {[IdleRequest EXCEPT !.kind = "import", !.file_id = file_id,
                                        !.skip_duplicates = skip_duplicates]} :
          requests' = [requests EXCEPT ![w] =
              IF file_id \notin DOMAIN _file_storage
              THEN Responded(data, 404)
              ELSE IF smiles_column \notin DOMAIN _file_storage[file_id]
              THEN Responded(data, 400)
              ELSE IF Len(validate_batch(_file_storage[file_id][smiles_column]).valid_indices) = 0
              THEN Responded([data EXCEPT !.rows = _file_storage[file_id][smiles_column]], 400)
              ELSE [data EXCEPT !.pc = "import_row",
                                !.rows = _file_storage[file_id][smiles_column],
                                !.valid_indices =
                                    validate_batch(_file_storage[file_id][smiles_column]).valid_indices,
                                !.k = 1]]
    /\ UNCHANGED <<outside_materials, materials, next_id, autoflush>>

\* The session before a query: with autoflush its new objects are inserted
\* first.
Autoflushed(r) ==
    IF autoflush
    THEN LET Flushed(inserted) ==
                 IF inserted.raised THEN inserted
                 ELSE Return([r EXCEPT !.new = <<>>,
                                       !.flushed = @ \cup inserted.value])
         IN  Flushed(InsertAll(Keys(materials) \cup Keys(r.flushed), r.new, next_id))
    ELSE Return(r)

\* Material(**material_data) is added to the session; its id, a column
\* default, is not set before the insert, so str(db_material.id) is 'None'.
Added(r, smiles, canonical_smiles) ==
    [r EXCEPT !.k = @ + 1,
              !.new = Append(@, [smiles |-> smiles,
                                 canonical_smiles |-> canonical_smiles.text]),
              !.imported = Append(@, "None")]

\* `existing` was found: duplicates += 1 or skipped += 1, and continue.
Existing(r) ==
    IF r.skip_duplicates
    THEN [r EXCEPT !.k = @ + 1, !.duplicates = @ + 1]
    ELSE [r EXCEPT !.k = @ + 1, !.skipped = @ + 1]

\* An exception leaves import_batch; the handler answers 500.
Failed(r, e) == [Responded(r, 500) EXCEPT !.error = e]

\* import_batch's loop without the query for an existing material.
ImportRowWithoutExistingQuery(w) ==
    /\ requests[w].pc = "import_row"
    /\ requests[w].k <= Len(requests[w].valid_indices)
    /\ \E smiles \in {iloc(requests[w].rows, requests[w].valid_indices[requests[w].k])} :
       \E canonical_smiles \in {canonicalize_smiles(smiles)} :
          IF canonical_smiles = PyNone
          THEN requests' = [requests EXCEPT ![w].k = @ + 1, ![w].skipped = @ + 1]
          ELSE requests' = [requests EXCEPT ![w] = Added(@, smiles, canonical_smiles)]
    /\ UNCHANGED <<outside_materials, materials, next_id, autoflush>>

\* import_batch, one iteration of the loop: a row with no canonical form is
\* skipped; the query sees the committed rows and the rows this session has
\* inserted, and a row found there is counted as a duplicate (or as skipped)
\* and not added; else db.add.  An IntegrityError of the autoflush is raised
\* by the query, outside the try: the response is 500.
ImportRow(w) ==
    /\ requests[w].pc = "import_row"
    /\ requests[w].k <= Len(requests[w].valid_indices)
    /\ \E smiles \in {iloc(requests[w].rows, requests[w].valid_indices[requests[w].k])} :
       \E canonical_smiles \in {canonicalize_smiles(smiles)} :
          IF canonical_smiles = PyNone
          THEN /\ requests' = [requests EXCEPT ![w].k = @ + 1, ![w].skipped = @ + 1]
               /\ UNCHANGED next_id
          ELSE \E session \in {Autoflushed(requests[w])} :
                  IF session.raised
                  THEN /\ requests' = [requests EXCEPT ![w] = Failed(@, "IntegrityError")]
                       /\ UNCHANGED next_id
                  ELSE /\ next_id' = next_id + (Len(requests[w].new) - Len(session.value.new))
                       /\ requests' = [requests EXCEPT ![w] =
                             IF canonical_smiles.text
                                    \in Keys(materials) \cup Keys(session.value.flushed)
                             THEN Existing(session.value)
                             ELSE Added(session.value, smiles, canonical_smiles)]
    /\ UNCHANGED <<outside_materials, materials, autoflush>>

\* What import_batch returns.
import_result(r) ==
    [imported_count |-> Len(r.imported), skipped_count |-> r.skipped,
     duplicate_count |-> r.duplicates, imported_ids |-> r.imported]

\* import_batch whose failed commit is not rolled back: the rows the session
\* had inserted before stay.
ImportCommitWithoutRollback(w) ==
    /\ requests[w].pc = "import_row"
    /\ requests[w].k > Len(requests[w].valid_indices)
    /\ \E inserted \in {InsertAll(Keys(materials) \cup Keys(requests[w].flushed),
                                  requests[w].new, next_id)} :
          IF inserted.raised
          THEN /\ requests' = [requests EXCEPT ![w] = Failed(@, "ValueError")]
               /\ materials' = materials \cup requests[w].flushed
               /\ UNCHANGED <<next_id, upload_vars>>
          ELSE /\ materials' = materials \cup requests[w].flushed \cup inserted.value
               /\ next_id' = next_id + Len(requests[w].new)
               /\ requests' = [requests EXCEPT ![w] =
                                  [Responded(requests[w], 200)
                                       EXCEPT !.result = import_result(requests[w])]]
               /\ _file_storage' = Del(_file_storage, requests[w].file_id)
               /\ imported_files' = imported_files \cup {requests[w].file_id}
    /\ UNCHANGED <<predictor_vars, call, training_vars, autoflush>>

\* import_batch after the loop: db.commit inserts the new objects and commits
\* all rows at once; on an exception rollback and ValueError, which the
\* handler answers with 500.  After a return the handler deletes the file
\* from the storage.
ImportCommit(w) ==
    /\ requests[w].pc = "import_row"
    /\ requests[w].k > Len(requests[w].valid_indices)
    /\ \E inserted \in {InsertAll(Keys(materials) \cup Keys(requests[w].flushed),
                                  requests[w].new, next_id)} :
          IF inserted.raised
          THEN /\ requests' = [requests EXCEPT ![w] = Failed(@, "ValueError")]
               /\ UNCHANGED <<materials, next_id, upload_vars>>
          ELSE /\ materials' = materials \cup requests[w].flushed \cup inserted.value
               /\ next_id' = next_id + Len(requests[w].new)
               /\ requests' = [requests EXCEPT ![w] =
                                  [Responded(requests[w], 200)
                                       EXCEPT !.result = import_result(requests[w])]]
               /\ _file_storage' = Del(_file_storage, requests[w].file_id)
               /\ imported_files' = imported_files \cup {requests[w].file_id}
    /\ UNCHANGED <<predictor_vars, call, training_vars, autoflush>>

\* The response is sent and the worker is free.
MatRespond(w) ==
    /\ requests[w].pc = "responded"
    /\ requests' = [requests EXCEPT ![w] = IdleRequest]
    /\ UNCHANGED <<outside_materials, materials, next_id, autoflush>>

\* An empty table and the three files uploaded; the sessions flush before
\* queries or do not, as app/core/database.py makes them.
MatInit ==
    /\ artifact = [kind |-> "missing"]
    /\ instances = <<>>
    /\ _predictor = 0
    /\ threads = [t \in Threads |-> IdleThread]
    /\ call = NoCall
    /\ materials = {}
    /\ next_id = 1
    /\ autoflush \in BOOLEAN
    /\ requests = [w \in MatWorkers |-> IdleRequest]
    /\ _file_storage = Stored([i \in DOMAIN MatBatches |-> Frame(MatBatches[i])])
    /\ imported_files = {}
    /\ training_jobs = <<>>
    /\ tasks = <<>>

MatNext ==
    \E w \in MatWorkers :
        \/ \E smiles \in MatSmiles : CreateRequest(w, smiles)
        \/ CreateCheck(w)
        \/ CreateCommit(w)
        \/ \E material_id \in 1..MaxCreated : DeleteRequest(w, material_id)
        \/ DeleteCheck(w)
        \/ DeleteCommit(w)
        \/ \E file_id \in 0..(Len(MatBatches) - 1) : \E smiles_column \in SmilesColumns :
           \E skip_duplicates \in BOOLEAN :
              ImportRequest(w, file_id, smiles_column, skip_duplicates)
        \/ ImportRow(w)
        \/ ImportCommit(w)
        \/ MatRespond(w)

MatSpec == MatInit /\ [][MatNext]_vars

\* ------------------------------------------------------ upload endpoints

\* The most frames the storage holds.
MaxStored == 2

\* The files sent to /api/upload/preview: one over 10 MB, one parse_file
\* refuses with ValueError, one with ethanol twice (its commit fails in a
\* session that does not autoflush), one with methylamine and one with no
\* valid row.
UploadFiles ==
    {[too_large |-> TRUE, parsed |-> Return(Frame(<<SmilesCCO>>))],
     [too_large |-> FALSE, parsed |-> Raise("ValueError")],
     [too_large |-> FALSE, parsed |-> Return(Frame(<<SmilesCCO, SmilesOCC>>))],
     [too_large |-> FALSE, parsed |-> Return(Frame(<<SmilesCN>>))],
     [too_large |-> FALSE, parsed |-> Return(Frame(<<SmilesXX>>))]}

\* The file ids the requests name: those upload_and_preview can give out
\* here, and one it never gives out.
FileIds == 0..MaxStored

\* The handlers of the upload endpoints are coroutines on one event loop:
\* none starts while import_materials, which never awaits, is running.
EventLoopFree == \A v \in MatWorkers : requests[v].pc # "import_row"

\* POST /api/upload/preview: 413 for a large file, 400 when parse_file
\* raises; else the frame is stored under f"upload_{len(_file_storage)}".
UploadAndPreview(file) ==
    /\ call = NoCall
    /\ EventLoopFree
    /\ Cardinality(DOMAIN _file_storage) < MaxStored
    /\ IF file.too_large
       THEN /\ call' = [fn |-> "upload_and_preview", arg |-> file,
                        out |-> [status |-> 413]]
            /\ UNCHANGED _file_storage
       ELSE IF file.parsed.raised
       THEN /\ call' = [fn |-> "upload_and_preview", arg |-> file,
                        out |-> [status |-> 400]]
            /\ UNCHANGED _file_storage
       ELSE \E df \in {file.parsed.value} :
            \E file_id \in {Cardinality(DOMAIN _file_storage)} :
               /\ _file_storage' = [k \in (DOMAIN _file_storage) \cup {file_id} |->
                                       IF k = file_id THEN df ELSE _file_storage[k]]
               /\ call' = [fn |-> "upload_and_preview", arg |-> file,
                           out |-> [status |-> 200, file_id |-> file_id,
                                    columns |-> DOMAIN df,
                                    row_count |-> Len(df.smiles)]]
    /\ UNCHANGED <<predictor_vars, materials_vars, imported_files, training_vars>>

\* POST /api/upload/validate: 404 for a file_id not stored, 400 for a column
\* the frame has not; else the counts of validate_batch.
ValidateSmiles(file_id, smiles_column) ==
    /\ call = NoCall
    /\ EventLoopFree
    /\ call' = [fn |-> "validate_smiles",
                arg |-> [file_id |-> file_id, smiles_column |-> smiles_column],
                out |-> IF file_id \notin DOMAIN _file_storage
                        THEN [status |-> 404]
                        ELSE IF smiles_column \notin DOMAIN _file_storage[file_id]
                        THEN [status |-> 400]
                        ELSE LET df == _file_storage[file_id]
                                 validated == validate_batch(df[smiles_column])
                             IN  [status |-> 200,
                                  total_rows |-> Len(df[smiles_column]),
                                  valid_count |-> Len(validated.valid_indices),
                                  invalid_count |-> Len(validated.errors),
                                  errors |-> validated.errors]]
    /\ UNCHANGED <<predictor_vars, materials_vars, upload_vars, training_vars>>

\* DELETE /api/upload/clear/{file_id}
ClearUpload(file_id) ==
    /\ call = NoCall
    /\ EventLoopFree
    /\ _file_storage' = IF file_id \in DOMAIN _file_storage
                        THEN Del(_file_storage, file_id)
                        ELSE _file_storage
    /\ call' = [fn |-> "clear_upload", arg |-> file_id, out |-> [status |-> 200]]
    /\ UNCHANGED <<predictor_vars, materials_vars, imported_files, training_vars>>

\* An empty table and no file stored.
UploadInit ==
    /\ artifact = [kind |-> "missing"]
    /\ instances = <<>>
    /\ _predictor = 0
    /\ threads = [t \in Threads |-> IdleThread]
    /\ call = NoCall
    /\ materials = {}
    /\ next_id = 1
    /\ autoflush \in BOOLEAN
    /\ requests = [w \in MatWorkers |-> IdleRequest]
    /\ _file_storage = <<>>
    /\ imported_files = {}
    /\ training_jobs = <<>>
    /\ tasks = <<>>

UploadNext ==
    \/ \E file \in UploadFiles : UploadAndPreview(file)
    \/ \E file_id \in FileIds : \E smiles_column \in SmilesColumns :
          ValidateSmiles(file_id, smiles_column)
    \/ \E file_id \in FileIds : ClearUpload(file_id)
    \/ CallReturns
    \/ \E w \in MatWorkers :
          \/ \E file_id \in FileIds : \E smiles_column \in SmilesColumns :
             \E skip_duplicates \in BOOLEAN :
                ImportRequest(w, file_id, smiles_column, skip_duplicates)
          \/ ImportRow(w)
          \/ ImportCommit(w)
          \/ MatRespond(w)

UploadSpec == UploadInit /\ [][UploadNext]_vars

\* -------------------------------------------------------- training jobs

\* The most jobs started.
MaxJobs == 2

\* The request bodies of /api/training/start: the three methods and one
\* that is none of them.
TrainingMethods == {"basic", "optuna", "autogluon", "xgboost"}
TrainingConfigs == {[property |-> "tg", method |-> method] : method \in TrainingMethods}

\* What the background task finds: the number of materials with the
\* property, and whether the optional library of the method is installed.
SampleCounts == {9, 10}

\* TrainingService.prepare_data: ValueError below ten samples.
prepare_data(samples) ==
    IF samples < 10 THEN Raise("Insufficient data") ELSE Return(samples)

\* TrainingService.train_basic_model
train_basic_model(samples) ==
    IF prepare_data(samples).raised
    THEN prepare_data(samples)
    ELSE Return([method |-> "RandomForest", n_samples |-> samples])

\* TrainingService.train_optuna_model: the import comes first.
train_optuna_model(samples, installed) ==
    IF ~installed
    THEN Raise("Optuna not installed")
    ELSE IF prepare_data(samples).raised
    THEN prepare_data(samples)
    ELSE Return([method |-> "Optuna-RF", n_samples |-> samples])

\* TrainingService.train_autogluon_model: the import comes first.
train_autogluon_model(samples, installed) ==
    IF ~installed
    THEN Raise("AutoGluon not installed")
    ELSE IF prepare_data(samples).raised
    THEN prepare_data(samples)
    ELSE Return([method |-> "AutoGluon", n_samples |-> samples])

\* run_training_job, the training between the two writes of the status.
train(config, samples, installed) ==
    IF config.method = "basic" THEN train_basic_model(samples)
    ELSE IF config.method = "optuna" THEN train_optuna_model(samples, installed)
    ELSE IF config.method = "autogluon" THEN train_autogluon_model(samples, installed)
    ELSE Raise("Unknown method")

\* start_training that stores the job as running.
StartTrainingAsRunning(config) ==
    /\ call = NoCall
    /\ Len(training_jobs) < MaxJobs
    /\ \E job_id \in {Len(training_jobs) + 1} :
          /\ training_jobs' = Append(training_jobs,
                                     [status |-> "running", config |-> config,
                                      result |-> PyNone, error |-> PyNone])
          /\ tasks' = Append(tasks, [pc |-> "queued", config |-> config,
                                     outcome |-> NoResult])
          /\ call' = [fn |-> "start_training", arg |-> config,
                      out |-> [job_id |-> job_id, status |-> "pending"]]
    /\ UNCHANGED <<predictor_vars, materials_vars, upload_vars>>

\* POST /api/training/start: a fresh job_id, the job stored as pending, the
\* background task added; the response says pending.
StartTraining(config) ==
    /\ call = NoCall
    /\ Len(training_jobs) < MaxJobs
    /\ \E job_id \in {Len(training_jobs) + 1} :
          /\ training_jobs' = Append(training_jobs,
                                     [status |-> "pending", config |-> config,
                                      result |-> PyNone, error |-> PyNone])
          /\ tasks' = Append(tasks, [pc |-> "queued", config |-> config,
                                     outcome |-> NoResult])
          /\ call' = [fn |-> "start_training", arg |-> config,
                      out |-> [job_id |-> job_id, status |-> "pending"]]
    /\ UNCHANGED <<predictor_vars, materials_vars, upload_vars>>

\* GET /api/training/status/{job_id}
GetJobStatus(job_id) ==
    /\ call = NoCall
    /\ call' = [fn |-> "get_job_status", arg |-> job_id,
                out |-> IF job_id \notin DOMAIN training_jobs
                        THEN [job_id |-> job_id, status |-> "not_found",
                              result |-> PyNone, error |-> PyNone]
                        ELSE LET job == training_jobs[job_id]
                             IN  [job_id |-> job_id, status |-> job.status,
                                  result |-> IF job.status = "completed"
                                                  /\ job.result # PyNone
                                             THEN job.result ELSE PyNone,
                                  error |-> job.error]]
    /\ UNCHANGED <<predictor_vars, materials_vars, upload_vars, training_vars>>

\* run_training_job starts, in a thread of the pool after the response:
\* the status becomes running.
TaskStart(j) ==
    /\ j \in DOMAIN tasks
    /\ tasks[j].pc = "queued"
    /\ training_jobs' = [training_jobs EXCEPT ![j].status = "running"]
    /\ tasks' = [tasks EXCEPT ![j].pc = "running"]
    /\ UNCHANGED <<predictor_vars, call, materials_vars, upload_vars>>

\* run_training_job, the call of the training method returns or raises.
TaskTrain(j, samples, installed) ==
    /\ j \in DOMAIN tasks
    /\ tasks[j].pc = "running"
    /\ tasks' = [tasks EXCEPT ![j].pc = "trained",
                              ![j].outcome = train(tasks[j].config, samples, installed)]
    /\ UNCHANGED <<predictor_vars, call, materials_vars, upload_vars, training_jobs>>

\* run_training_job without `except Exception`: the exception leaves the
\* task.
TaskSetStatusWithoutExcept(j) ==
    /\ j \in DOMAIN tasks
    /\ tasks[j].pc = "trained"
    /\ IF tasks[j].outcome.raised
       THEN /\ tasks' = [tasks EXCEPT ![j].pc = "done"]
            /\ UNCHANGED training_jobs
       ELSE /\ tasks' = [tasks EXCEPT ![j].pc = "status_set"]
            /\ training_jobs' = [training_jobs EXCEPT ![j].status = "completed"]
    /\ UNCHANGED <<predictor_vars, call, materials_vars, upload_vars>>

\* run_training_job, the status after the training: completed, or failed in
\* `except Exception`.
TaskSetStatus(j) ==
    /\ j \in DOMAIN tasks
    /\ tasks[j].pc = "trained"
    /\ tasks' = [tasks EXCEPT ![j].pc = "status_set"]
    /\ training_jobs' = [training_jobs EXCEPT ![j].status =
                            IF tasks[j].outcome.raised THEN "failed" ELSE "completed"]
    /\ UNCHANGED <<predictor_vars, call, materials_vars, upload_vars>>

\* run_training_job, its last statement: the result, or str(e) as the error.
TaskSetResult(j) ==
    /\ j \in DOMAIN tasks
    /\ tasks[j].pc = "status_set"
    /\ tasks' = [tasks EXCEPT ![j].pc = "done"]
    /\ training_jobs' = IF tasks[j].outcome.raised
                        THEN [training_jobs EXCEPT ![j].error = PyStr(tasks[j].outcome.value)]
                        ELSE [training_jobs EXCEPT ![j].result = tasks[j].outcome.value]
    /\ UNCHANGED <<predictor_vars, call, materials_vars, upload_vars>>

\* The ids the status requests name: the first job's, and one never given
\* out.
StatusIds == {1, MaxJobs + 1}

\* No job started.
TrainInit ==
    /\ artifact = [kind |-> "missing"]
    /\ instances = <<>>
    /\ _predictor = 0
    /\ threads = [t \in Threads |-> IdleThread]
    /\ call = NoCall
    /\ MaterialsIdle

TrainNext ==
    \/ \E config \in TrainingConfigs : StartTraining(config)
    \/ \E job_id \in StatusIds : GetJobStatus(job_id)
    \/ CallReturns
    \/ \E j \in 1..MaxJobs :
          \/ TaskStart(j)
          \/ \E samples \in SampleCounts : \E installed \in BOOLEAN :
                TaskTrain(j, samples, installed)
          \/ TaskSetStatus(j)
          \/ TaskSetResult(j)

TrainSpec == TrainInit /\ [][TrainNext]_vars

\* A step of the background task of job j.
TaskStep(j) ==
    \/ TaskStart(j)
    \/ \E samples \in SampleCounts : \E installed \in BOOLEAN :
          TaskTrain(j, samples, installed)
    \/ TaskSetStatus(j)
    \/ TaskSetResult(j)

\* A background task that was added is run, and each of its steps ends: the
\* calls of the libraries return or raise.
TaskFairness == \A j \in 1..MaxJobs : WF_vars(TaskStep(j))

TrainFairSpec == TrainInit /\ [][TrainNext]_vars /\ TaskFairness

\* ----------------------------------------------------------------- claims

\* The predictor a thread holds.
Self(t) == instances[threads[t].predictor]

\* The thread is back in predict_properties with what predict returned or
\* raised.
Returned(t) == threads[t].pc = "returned"

\* predict went through its loop.
LoopDone(t) == Returned(t) /\ threads[t].i > Len(property_names)

CanonicalKeys == {"tg", "ffv", "tc", "density", "rg"}

\* r is the return of the full placeholder: the five canonical keys, each
\* with value 0.0 and confidence 0.0.
IsFullPlaceholder(r) ==
    /\ ~r.raised
    /\ DOMAIN r.value = CanonicalKeys
    /\ \A k \in CanonicalKeys : r.value[k] = [value |-> Zero, confidence |-> Zero]

\* The text does not validate.
Unparseable(smiles) == smiles = <<>> \/ MolFromSmiles(smiles) = PyNone

\* C1: whatever the input and the store, predict returns a mapping whose
\* keys are exactly tg, ffv, tc, density, rg, each entry holding a value and
\* a confidence (so the same keys on the placeholder and the computed path).
C1_CanonicalKeySet ==
    \A t \in Threads :
        Returned(t) =>
            /\ ~threads[t].result.raised
            /\ DOMAIN threads[t].result.value = CanonicalKeys
            /\ \A k \in DOMAIN threads[t].result.value :
                  DOMAIN threads[t].result.value[k] = {"value", "confidence"}

\* C2: predict is total: whatever the input and the artifact, it returns
\* and never raises to its caller, so the endpoint never answers 500.
C2_PredictNeverRaises ==
    \A t \in Threads :
        /\ Returned(t) => ~threads[t].result.raised
        /\ threads[t].response # NoResult => threads[t].response.status = 200

\* predict returned although the try block of some property raised.
C2_Witness ==
    \E t \in Threads :
        /\ LoopDone(t)
        /\ ~threads[t].result.raised
        /\ \E p \in PropertySet :
              predict_try_block(Self(t), threads[t].features, p).raised

\* C3: for a SMILES that fails validation (or whose features cannot be
\* extracted) predict returns the full placeholder at once: the loop is not
\* entered and no scaler and no model is called.
C3_InvalidInputShortCircuits ==
    \A t \in Threads :
        (Returned(t) /\ threads[t].predictor # 0
           /\ (Unparseable(threads[t].smiles)
               \/ extract_features(threads[t].smiles) = PyNone)) =>
            /\ IsFullPlaceholder(threads[t].result)
            /\ threads[t].i = 0
            /\ threads[t].scaler_calls = 0
            /\ threads[t].model_calls = 0

\* predict returned for "XYZ123" or "" on a store that has a scaler and an
\* ensemble for every property.
C3_Witness ==
    \E t \in Threads :
        /\ Returned(t)
        /\ threads[t].smiles \in {SmilesXYZ123, SmilesEmpty}
        /\ threads[t].predictor # 0
        /\ Self(t).models = FullMap(FullEnsemble)
        /\ Self(t).scalers = FullMap(GoodScaler)
        /\ IsFullPlaceholder(threads[t].result)

\* C4: with the store unloaded (models is None) predict returns value 0.0
\* and confidence 0.0 for all five properties, whatever the input, and does
\* not raise.
C4_UnloadedStoreGivesPlaceholder ==
    \A t \in Threads :
        (Returned(t) /\ threads[t].predictor # 0 /\ Self(t).models = PyNone) =>
            IsFullPlaceholder(threads[t].result)

\* predict returned for a valid SMILES on an unloaded store.
C4_Witness ==
    \E t \in Threads :
        /\ Returned(t)
        /\ threads[t].predictor # 0
        /\ Self(t).models = PyNone
        /\ ~Unparseable(threads[t].smiles)
        /\ threads[t].features # PyNone

\* The file is missing, or load_model's try block raises on it: unpickling
\* fails, or what is taken for the models has no keys().
LoadFails(file) ==
    \/ file.kind \in {"missing", "corrupt"}
    \/ /\ file.kind = "file"
       /\ ~HasKeys(IF file.data.kind = "dict"
                   THEN DictGet(file.data, "models", EmptyDict)
                   ELSE file.data)

\* C5: constructing the predictor on a missing file, or on a file whose
\* loading fails, does not raise and leaves the store unloaded (models None,
\* scalers empty); every prediction that follows is the placeholder.
C5_FailedLoadLeavesUnloaded ==
    LoadFails(artifact) =>
        /\ \A k \in 1..Len(instances) :
              /\ instances[k].models = PyNone
              /\ instances[k].scalers = EmptyDict
        /\ \A t \in Threads :
              /\ threads[t].pc \notin {"idle", "get_predictor", "construct",
                                         "return_predictor"} =>
                    threads[t].predictor # 0
              /\ Returned(t) => IsFullPlaceholder(threads[t].result)

\* A predictor was constructed on a file that does not unpickle, and a
\* prediction for a valid SMILES returned from it.
C5_Witness ==
    \E t \in Threads :
        /\ artifact.kind = "corrupt"
        /\ Len(instances) = 1
        /\ Returned(t)
        /\ ~Unparseable(threads[t].smiles)

\* The key a property would have in either casing.
Lower(p) ==
    CASE p = "Tg" -> "tg" [] p = "FFV" -> "ffv" [] p = "Tc" -> "tc"
      [] p = "Density" -> "density" [] p = "Rg" -> "rg"

\* The file holds the legacy shape: a bare mapping from property name to
\* one model, with no 'models' and no 'scalers' key.
LegacyFile(file) ==
    /\ file.kind = "file"
    /\ file.data \in {PyDict(LegacyMap), [kind |-> "Mapping", map |-> LegacyMap]}

\* C6: on an artifact of the legacy shape each property is predicted from
\* its single model, as an ensemble of one (confidence 1) on the unscaled
\* features, instead of failing or returning the placeholder.
C6_LegacyShapeAdapts ==
    \A t \in Threads :
        (Returned(t) /\ LegacyFile(artifact) /\ ~Unparseable(threads[t].smiles)) =>
            /\ ~threads[t].result.raised
            /\ \A p \in PropertySet :
                  \E k \in DOMAIN threads[t].result.value \cap {p, Lower(p)} :
                      LET raw == model_predict(LegacyMap[p], threads[t].features.row).value
                          entry == threads[t].result.value[k]
                      IN  /\ entry.confidence = One
                          /\ entry.value \in {raw, tg_transform(p, raw)}

\* The store has an entry for p under `field`.
HasEntry(self, field, p) == HasKeys(self[field]) /\ p \in DOMAIN self[field].map
HasBoth(self, p) == HasEntry(self, "models", p) /\ HasEntry(self, "scalers", p)

\* C7: on a loaded store and a valid SMILES, a property without a scaler
\* entry or without an ensemble entry gets value 0.0 and confidence 0.0, and
\* the loop goes on: every property with both entries gets what its own
\* scaler and ensemble give, and its scaler is called.
C7_MissingEntryIsLocal ==
    \A t \in Threads :
        (LoopDone(t) /\ HasKeys(Self(t).models) /\ HasKeys(Self(t).scalers)) =>
            /\ ~threads[t].result.raised
            /\ \A p \in PropertySet :
                  /\ p \in DOMAIN threads[t].result.value
                  /\ ~HasBoth(Self(t), p) =>
                        threads[t].result.value[p] = [value |-> Zero, confidence |-> Zero]
                  /\ HasBoth(Self(t), p) =>
                        threads[t].result.value[p] =
                            predict_property(Self(t), threads[t].features, p).value
            /\ threads[t].scaler_calls =
                  Cardinality({p \in PropertySet : HasBoth(Self(t), p)})

\* The first property has no scaler and is zeroed; the last one has both
\* entries and is computed.
C7_Witness ==
    \E t \in Threads :
        /\ LoopDone(t)
        /\ HasEntry(Self(t), "models", "Tg")
        /\ ~HasEntry(Self(t), "scalers", "Tg")
        /\ HasBoth(Self(t), "Rg")
        /\ threads[t].result.value["Tg"] = [value |-> Zero, confidence |-> Zero]
        /\ threads[t].result.value["Rg"].confidence # Zero

\* The store with p's scaler and ensemble replaced by ones that work.
Repaired(self, p) ==
    [self EXCEPT
        !.models = IF HasKeys(@) THEN [@ EXCEPT !.map = (p :> FullEnsemble) @@ @] ELSE @,
        !.scalers = IF HasKeys(@) THEN [@ EXCEPT !.map = (p :> GoodScaler) @@ @] ELSE @]

\* C8: a failure while scaling or evaluating the ensemble of one property
\* gives value 0.0 and confidence 0.0 for that property; every other
\* property gets what it gets when that property does not fail, wherever the
\* failing property stands in the loop.
C8_FailureIsLocal ==
    \A t \in Threads :
        LoopDone(t) =>
            /\ ~threads[t].result.raised
            /\ \A p \in PropertySet :
                  predict_try_block(Self(t), threads[t].features, p).raised =>
                      /\ p \in DOMAIN threads[t].result.value
                      /\ threads[t].result.value[p] = [value |-> Zero, confidence |-> Zero]
                      /\ \A q \in PropertySet \ {p} :
                            /\ q \in DOMAIN threads[t].result.value
                            /\ threads[t].result.value[q] =
                                  predict_property(Repaired(Self(t), p),
                                                   threads[t].features, q).value

\* A property in the middle of the loop fails in its scaler or its ensemble
\* (both were called), and the properties before and after it are computed.
C8_Witness ==
    \E t \in Threads :
        /\ LoopDone(t)
        /\ predict_try_block(Self(t), threads[t].features, "Tc").raised
        /\ predict_try_block(Self(t), threads[t].features, "Tc").scaler_calls = 1
        /\ threads[t].result.value["Tc"] = [value |-> Zero, confidence |-> Zero]
        /\ threads[t].result.value["Tg"].confidence # Zero
        /\ threads[t].result.value["Rg"].confidence # Zero

\* p went through scaling and the whole ensemble without raising.
Computed(t, p) ==
    /\ HasBoth(Self(t), p)
    /\ ~predict_try_block(Self(t), threads[t].features, p).raised

\* The outputs of p's ensemble members on the scaled features.
EnsembleOutputs(t, p) ==
    LET X == transform(Self(t).scalers.map[p], threads[t].features.row).value
        items == Self(t).models.map[p].items
    IN  [k \in 1..Len(items) |-> model_predict(items[k], X).value]

\* C9: for a property computed from its ensemble, the point estimate before
\* the post-transform is the arithmetic mean of the N outputs of the
\* ensemble on the scaled features: N times the estimate is their sum (for
\* no outputs, numpy's mean is nan); outputs 10, 12, 11 give 11.
C9_PointEstimateIsMean ==
    \A t \in Threads :
        LoopDone(t) =>
            \A p \in PropertySet :
                Computed(t, p) =>
                    LET outs == EnsembleOutputs(t, p)
                        pred == threads[t].pred[p]
                    IN  /\ IF Len(outs) = 0 THEN pred.nan
                           ELSE /\ ~pred.nan
                                /\ FMul(pred, FromInt(Len(outs))) = SumSeq(outs)
                        /\ p # "Tg" => threads[t].result.value[p].value = pred

\* An ensemble gave 10, 12 and 11 and the estimate is 11.
C9_Witness ==
    \E t \in Threads :
        /\ LoopDone(t)
        /\ Computed(t, "FFV")
        /\ EnsembleOutputs(t, "FFV") = <<FromInt(10), FromInt(12), FromInt(11)>>
        /\ threads[t].pred["FFV"] = FromInt(11)
        /\ threads[t].result.value["FFV"].value = FromInt(11)

\* x clamped to [0, 1].
Clamp01(x) == IF FLt(x, Zero) THEN Zero ELSE IF FLt(One, x) THEN One ELSE x

\* C10: for a property computed from its ensemble the confidence is
\* 1 / (1 + stddev(outputs)) clamped to [0, 1], taken on the untransformed
\* outputs; so every confidence predict returns, on any path, is a number
\* in [0, 1].
C10_ConfidenceInUnitInterval ==
    \A t \in Threads :
        (Returned(t) /\ ~threads[t].result.raised) =>
            /\ \A k \in DOMAIN threads[t].result.value :
                  LET c == threads[t].result.value[k].confidence
                  IN  ~c.nan /\ FLe(Zero, c) /\ FLe(c, One)
            /\ LoopDone(t) =>
                  \A p \in PropertySet :
                      Computed(t, p) =>
                          threads[t].result.value[p].confidence =
                              Clamp01(FDiv(One, FAdd(One, NpStd(EnsembleOutputs(t, p)))))

\* C11: the correction 1.8 * value + 45 is applied once, after averaging,
\* to Tg and to no other property: what predict returns for a computed
\* property is the mean of its ensemble's outputs, corrected for Tg only (a
\* mean of 10 surfaces as 63).
C11_TgTransformOnceTgOnly ==
    \A t \in Threads :
        LoopDone(t) =>
            \A p \in PropertySet :
                Computed(t, p) =>
                    LET raw == NpMean(EnsembleOutputs(t, p))
                    IN  threads[t].result.value[p].value =
                            IF p = "Tg"
                            THEN FAdd(FMul(Rat(18, 10), raw), FromInt(45))
                            ELSE raw

\* The Tg ensemble averaged 10 and Tg surfaced as 63, while FFV surfaced as
\* its average 11.
C11_Witness ==
    \E t \in Threads :
        /\ LoopDone(t)
        /\ Computed(t, "Tg")
        /\ Computed(t, "FFV")
        /\ NpMean(EnsembleOutputs(t, "Tg")) = FromInt(10)
        /\ threads[t].result.value["Tg"].value = FromInt(63)
        /\ NpMean(EnsembleOutputs(t, "FFV")) = FromInt(11)
        /\ threads[t].result.value["FFV"].value = FromInt(11)

\* C12: once the predictor is constructed no step of get_predictor or
\* predict changes it: the global keeps naming the same object, no object is
\* constructed again, and models, scalers, n_ensemble and feature_names of
\* every constructed object stay what the constructor left.
C12_StoreImmutable ==
    [][/\ \A k \in 1..Len(instances) :
             k \in 1..Len(instances') /\ instances'[k] = instances[k]
       /\ _predictor # 0 => (_predictor' = _predictor /\ instances' = instances)]_vars

\* predict ran to its end on a loaded store, which is still what the
\* constructor made of the artifact.
C12_Witness ==
    \E t \in Threads :
        /\ LoopDone(t)
        /\ _predictor # 0
        /\ threads[t].predictor = _predictor
        /\ Self(t).models # PyNone
        /\ Self(t) = PolymerPredictor(artifact).self

\* C13: under every interleaving of the requests of several threads on one
\* loaded store, each predict call returns what predict returns for its
\* SMILES on that store when it runs alone.
C13_ConcurrentPredictAsAlone ==
    \A t \in DOMAIN threads :
        Returned(t) => threads[t].result = predict(Self(t), threads[t].smiles)

\* One thread's predict returned computed values for CCO while the other
\* thread is in the middle of its loop for benzene on the same store.
C13_Witness ==
    \E t, u \in DOMAIN threads :
        /\ t # u
        /\ LoopDone(t)
        /\ threads[t].smiles = SmilesCCO
        /\ threads[t].result.value["Tg"].confidence # Zero
        /\ threads[u].pc = "loop"
        /\ threads[u].i \in 2..Len(property_names)
        /\ threads[u].smiles = SmilesBenzene
        /\ threads[u].predictor = threads[t].predictor

Occurrences(s, ch) == Cardinality({i \in 1..Len(s) : s[i] = ch})

\* The last call was fn on a text that is a valid SMILES.
CalledOnValid(fn) ==
    /\ call.fn = fn
    /\ call.arg # NotAStr
    /\ call.arg # <<>>
    /\ MolFromSmiles(call.arg) # PyNone

\* The documented order of the feature vector.
FeatureVectorOrder ==
    <<"smiles_length", "carbon_count", "nitrogen_count", "oxygen_count",
      "sulfur_count", "fluorine_count", "ring_count", "double_bond_count",
      "triple_bond_count", "branch_count",
      "num_side_chains", "backbone_carbons", "branching_ratio",
      "aromatic_count", "h_bond_donors", "h_bond_acceptors", "num_rings",
      "single_bonds", "halogen_count", "heteroatom_count", "mw_estimate">>

\* C14: for every valid SMILES extract_features returns a vector of exactly
\* 21 values, the 10 structural counts first and the 11 graph descriptors
\* after them in the documented order: position i holds the feature that
\* extract_all_features gives under the i-th documented name.
C14_VectorOf21InOrder ==
    CalledOnValid("extract_features") =>
        /\ call.out # PyNone
        /\ Len(call.out.row) = 21
        /\ \A i \in 1..21 :
              call.out.row[i] =
                  extract_all_features(call.arg).map[FeatureVectorOrder[i]]

\* extract_features of formaldehyde C=O: 21 values, no donor at position 15
\* and one acceptor at position 16.
C14_Witness ==
    /\ CalledOnValid("extract_features")
    /\ call.arg = <<"C", "=", "O">>
    /\ Len(call.out.row) = 21
    /\ call.out.row[15] = Zero
    /\ call.out.row[16] = One

\* C15: the 10 structural counts fed to the models are the numbers of
\* occurrences of the characters in the text as given, not in its canonical
\* form: the length, C, N, O, S, F, the ring markers 1 and 2, =, # and (.
C15_CountsOnRawText ==
    CalledOnValid("extract_features") =>
        /\ call.out # PyNone
        /\ call.out.row[1] = FromInt(Len(call.arg))
        /\ call.out.row[2] = FromInt(Occurrences(call.arg, "C"))
        /\ call.out.row[3] = FromInt(Occurrences(call.arg, "N"))
        /\ call.out.row[4] = FromInt(Occurrences(call.arg, "O"))
        /\ call.out.row[5] = FromInt(Occurrences(call.arg, "S"))
        /\ call.out.row[6] = FromInt(Occurrences(call.arg, "F"))
        /\ call.out.row[7] = FromInt(Occurrences(call.arg, "1")
                                        + Occurrences(call.arg, "2"))
        /\ call.out.row[8] = FromInt(Occurrences(call.arg, "="))
        /\ call.out.row[9] = FromInt(Occurrences(call.arg, "#"))
        /\ call.out.row[10] = FromInt(Occurrences(call.arg, "("))

\* extract_features of C(C)O, whose canonical form is CCO: length 5, two
\* carbons, one oxygen, no nitrogen and one branch.
C15_Witness ==
    /\ CalledOnValid("extract_features")
    /\ call.arg = <<"C", "(", "C", ")", "O">>
    /\ canonicalize_smiles(call.arg) = PyStr(SmilesCCO)
    /\ call.out.row[1] = FromInt(5)
    /\ call.out.row[2] = FromInt(2)
    /\ call.out.row[3] = Zero
    /\ call.out.row[4] = One
    /\ call.out.row[10] = One

\* The atoms of the molecule of the text with more than two neighbours, and
\* its carbon atoms.
Branched(smiles) ==
    Cardinality({i \in 1..Len(MolFromSmiles(smiles).atoms) :
                    GetDegree(MolFromSmiles(smiles), i) > 2})
Carbons(smiles) ==
    Cardinality({i \in 1..Len(MolFromSmiles(smiles).atoms) :
                    MolFromSmiles(smiles).atoms[i].symbol = "C"})

\* C17: for every text that parses extract_chemistry_features returns its
\* descriptors (no division by zero sends it to None); backbone_carbons is
\* the carbons minus the atoms of degree above 2, and branching_ratio is the
\* number of atoms of degree above 2 over the backbone carbons when these
\* are 1 or more, and is that number itself when they are 0 or negative.
C17_BranchingRatioGuarded ==
    (call.fn = "extract_chemistry_features" /\ MolFromSmiles(call.arg) # PyNone) =>
        /\ call.out # PyNone
        /\ call.out.map.num_side_chains = FromInt(Branched(call.arg))
        /\ call.out.map.backbone_carbons =
              FromInt(Carbons(call.arg) - Branched(call.arg))
        /\ call.out.map.branching_ratio =
              IF Carbons(call.arg) - Branched(call.arg) >= 1
              THEN FDiv(FromInt(Branched(call.arg)),
                        FromInt(Carbons(call.arg) - Branched(call.arg)))
              ELSE FromInt(Branched(call.arg))

\* NC(N)N: one carbon, which is the one branched atom; no backbone carbon is
\* left and the ratio is 1.
C17_Witness ==
    /\ call.fn = "extract_chemistry_features"
    /\ call.arg = <<"N", "C", "(", "N", ")", "N">>
    /\ call.out # PyNone
    /\ call.out.map.backbone_carbons = Zero
    /\ call.out.map.num_side_chains = One
    /\ call.out.map.branching_ratio = One

\* C18: validate_smiles never raises; it returns True exactly when its
\* argument is a non-empty text that parses to a molecule, and False for the
\* empty text, for a text the parser rejects and for an argument on which
\* the parser raises.
C18_ValidateSmilesTotal ==
    call.fn = "validate_smiles" =>
        /\ ~call.out.raised
        /\ call.out.value =
              (/\ call.arg # NotAStr
               /\ call.arg # <<>>
               /\ MolFromSmiles(call.arg) # PyNone)

\* The parser raised on the argument and validate_smiles returned False.
C18_Witness ==
    /\ call.fn = "validate_smiles"
    /\ MolFromSmilesCall(call.arg).raised
    /\ call.out = Return(FALSE)

\* C19: create_material answers 400 to an invalid SMILES and 409 to a SMILES
\* whose canonical form is the canonical_smiles of a stored material, and in
\* both cases the stored materials stay as they were.
C19_DuplicateAndInvalidRejected ==
    [][\A w \in MatWorkers :
          (requests[w].pc = "create_check" /\ requests'[w] # requests[w]) =>
              /\ ~validate_smiles(requests[w].smiles) =>
                    /\ requests'[w].pc = "responded"
                    /\ requests'[w].status = 400
                    /\ materials' = materials
              /\ (/\ validate_smiles(requests[w].smiles)
                  /\ canonicalize_smiles(requests[w].smiles).text \in Keys(materials)) =>
                    /\ requests'[w].pc = "responded"
                    /\ requests'[w].status = 409
                    /\ materials' = materials]_vars

\* OCC was posted while ethanol is stored as CCO, and was answered 409 with
\* the one material still stored.
C19_Witness ==
    \E w \in MatWorkers :
        /\ requests[w].kind = "create"
        /\ requests[w].pc = "responded"
        /\ requests[w].status = 409
        /\ requests[w].smiles = SmilesOCC
        /\ \E m \in materials : m.canonical_smiles = SmilesCCO /\ m.smiles = SmilesCCO
        /\ Cardinality(materials) = 1

\* C20: no two stored materials have the same canonical_smiles, whatever the
\* interleaving of create, import and delete requests.
C20_CanonicalSmilesUnique ==
    \A m \in materials : \A n \in materials :
        m.canonical_smiles = n.canonical_smiles => m = n

\* Two creates of ethanol both passed the query for an existing material;
\* one was stored and the other answered 500.
C20_Witness ==
    \E w \in MatWorkers : \E v \in MatWorkers :
        /\ requests[w].kind = "create" /\ requests[v].kind = "create"
        /\ requests[w].pc = "responded" /\ requests[w].status = 201
        /\ requests[v].pc = "responded" /\ requests[v].status = 500
        /\ canonicalize_smiles(requests[w].smiles) = canonicalize_smiles(requests[v].smiles)
        /\ Cardinality({m \in materials : m.canonical_smiles = SmilesCCO}) = 1

\* C28: at most one PolymerPredictor is ever constructed, and every call of
\* get_predictor that returned holds that one instance, also when the first
\* calls come from several request threads at once.
C28_OnePredictorInstance ==
    /\ Len(instances) <= 1
    /\ \A t \in DOMAIN threads : \A u \in DOMAIN threads :
          (threads[t].predictor # 0 /\ threads[u].predictor # 0) =>
              threads[t].predictor = threads[u].predictor

\* C24: validate_batch partitions the rows: every index 0..n-1 is either in
\* valid_indices once, or has one entry in errors, numbered index + 2; the
\* rows with a missing or an invalid SMILES are the ones in errors, and the
\* two counts add up to the number of rows.
C24_ValidateBatchPartitions ==
    call.fn = "validate_batch" =>
        LET valid == call.out.valid_indices
            errors == call.out.errors
            InValid(idx) == {k \in 1..Len(valid) : valid[k] = idx}
            InErrors(idx) == {k \in 1..Len(errors) : errors[k].row = idx + 2}
        IN  /\ Len(valid) + Len(errors) = Len(call.arg)
            /\ \A k \in 1..Len(valid) : valid[k] \in 0..(Len(call.arg) - 1)
            /\ \A k \in 1..Len(errors) : errors[k].row - 2 \in 0..(Len(call.arg) - 1)
            /\ \A idx \in 0..(Len(call.arg) - 1) :
                  LET bad == \/ call.arg[idx + 1] = NotAStr
                             \/ MolFromSmiles(call.arg[idx + 1]) = PyNone
                             \/ call.arg[idx + 1] = <<>>
                  IN  /\ Cardinality(InValid(idx)) = (IF bad THEN 0 ELSE 1)
                      /\ Cardinality(InErrors(idx)) = (IF bad THEN 1 ELSE 0)

\* A file of three rows, a valid SMILES, a missing cell and an invalid
\* SMILES: index 0 is valid, rows 3 and 4 are the errors.
C24_Witness ==
    /\ call.fn = "validate_batch"
    /\ call.arg = <<SmilesCCO, NotAStr, SmilesXYZ123>>
    /\ call.out.valid_indices = <<0>>
    /\ Len(call.out.errors) = 2
    /\ call.out.errors[1].row = 3 /\ call.out.errors[1].error = "Missing SMILES"
    /\ call.out.errors[2].row = 4

\* The row import_batch's loop is at, in canonical form.
CurrentCanonical(r) ==
    canonicalize_smiles(iloc(r.rows, r.valid_indices[r.k]))

\* C23: for every import_batch call that returns, imported_count +
\* skipped_count + duplicate_count is the number of valid_indices passed in
\* and imported_ids has imported_count entries; and the iteration on a row
\* whose canonical SMILES is already stored does not import it: it counts it
\* as a duplicate when skip_duplicates is true and as skipped otherwise.
C23_ImportBatchCounts ==
    [][\A w \in MatWorkers :
          /\ (/\ requests[w].pc = "import_row"
              /\ requests'[w].pc = "responded"
              /\ requests'[w].status = 200)
             => /\ requests'[w].result.imported_count
                     + requests'[w].result.skipped_count
                     + requests'[w].result.duplicate_count
                   = Len(requests[w].valid_indices)
                /\ Len(requests'[w].result.imported_ids)
                   = requests'[w].result.imported_count
          /\ (/\ requests[w].pc = "import_row"
              /\ requests[w].k <= Len(requests[w].valid_indices)
              /\ requests'[w] # requests[w]
              /\ CurrentCanonical(requests[w]) # PyNone
              /\ CurrentCanonical(requests[w]).text \in Keys(materials))
             => /\ requests'[w].imported = requests[w].imported
                /\ requests'[w].pc = "import_row"
                   => IF requests[w].skip_duplicates
                      THEN /\ requests'[w].duplicates = requests[w].duplicates + 1
                           /\ requests'[w].skipped = requests[w].skipped
                      ELSE /\ requests'[w].skipped = requests[w].skipped + 1
                           /\ requests'[w].duplicates = requests[w].duplicates]_vars

\* C23, its case: an import of two valid rows has returned having imported
\* one and counted the other as a duplicate.
C23_Witness ==
    \E w \in MatWorkers :
        /\ requests[w].kind = "import"
        /\ requests[w].status = 200
        /\ requests[w].result.imported_count = 1
        /\ requests[w].result.duplicate_count = 1
        /\ Len(requests[w].valid_indices) = 2

\* C25: import_batch is all-or-nothing.  No iteration of the loop changes the
\* stored materials; the commit either stores every added material of the
\* batch at once (and the call returns), or stores none of them, and then
\* the ValueError raised is answered with 500.
C25_ImportAllOrNothing ==
    [][\A w \in MatWorkers :
          (/\ requests[w].pc = "import_row"
           /\ requests'[w] # requests[w])
          => IF requests[w].k <= Len(requests[w].valid_indices)
             THEN materials' = materials
             ELSE \/ /\ requests'[w].status = 200
                     /\ materials \subseteq materials'
                     /\ Cardinality(materials') = Cardinality(materials)
                                                  + Len(requests[w].imported)
                  \/ /\ requests'[w].status = 500
                     /\ requests'[w].error = "ValueError"
                     /\ materials' = materials]_vars

\* C25, its case: the commit of a batch has failed and the response is 500,
\* while a material is stored (the one whose insert made the commit fail).
C25_Witness ==
    \E w \in MatWorkers :
        /\ requests[w].kind = "import"
        /\ requests[w].status = 500
        /\ requests[w].error = "ValueError"
        /\ Len(requests[w].imported) = 2
        /\ materials # {}

\* C21: the file_id upload_and_preview gives to a new upload is not the key
\* of a frame in the storage, so that no upload replaces a stored frame.
C21_NewFileIdNotStored ==
    [][(/\ call = NoCall
        /\ call'.fn = "upload_and_preview"
        /\ call'.out.status = 200)
       => call'.out.file_id \notin DOMAIN _file_storage]_vars

\* C22: once import_materials has succeeded for a file_id, every later
\* validate request and every later import request with that file_id is
\* answered with 404.
C22_ImportedFileNotFound ==
    [][/\ (/\ call = NoCall
           /\ call'.fn = "validate_smiles"
           /\ call'.arg.file_id \in imported_files)
          => call'.out.status = 404
       /\ \A w \in MatWorkers :
             (/\ requests[w].pc = "idle"
              /\ requests'[w].kind = "import"
              /\ requests'[w].file_id \in imported_files)
             => requests'[w].status = 404]_vars

\* The steps of a job's status.
StatusSteps ==
    {<<"pending", "running">>, <<"running", "completed">>, <<"running", "failed">>}

\* C26: a job starts as pending and its status only moves along pending ->
\* running -> completed | failed (completed and failed are never left, no job
\* is removed); get_job_status reports the stored status, and 'not_found'
\* for an id that was never started.
C26_StatusMovesForward ==
    [][/\ \A j \in DOMAIN training_jobs :
             /\ j \in DOMAIN training_jobs'
             /\ \/ training_jobs'[j].status = training_jobs[j].status
                \/ <<training_jobs[j].status, training_jobs'[j].status>> \in StatusSteps
       /\ \A j \in (DOMAIN training_jobs') \ (DOMAIN training_jobs) :
             training_jobs'[j].status = "pending"
       /\ (call = NoCall /\ call'.fn = "get_job_status")
          => call'.out.status = IF call'.arg \in DOMAIN training_jobs
                                THEN training_jobs[call'.arg].status
                                ELSE "not_found"]_vars

\* C26, its case: one job has completed, another has failed, and a status
\* request for an id never started has been answered.
C26_Witness ==
    /\ \E j \in DOMAIN training_jobs : training_jobs[j].status = "completed"
    /\ \E j \in DOMAIN training_jobs : training_jobs[j].status = "failed"
    /\ call.fn = "get_job_status"
    /\ call.arg \notin DOMAIN training_jobs
    /\ call.out.status = "not_found"

\* The background task of job j has ended.
TaskDone(j) == j \in DOMAIN tasks /\ tasks[j].pc = "done"

====
